---- MODULE Spec2Model ----
(***************************************************************************)
(* Table detection and visual capture service (screenshot-service).        *)
(*                                                                         *)
(* The module models tableDetector.js (fuzzy matching, header search,      *)
(* boundary expansion, detectTable), the render pipeline of                *)
(* excelVisualRenderer.js with its temporary files and subprocesses, and   *)
(* the request handlers of server.js.                                      *)
(*                                                                         *)
(* A JavaScript string is a sequence of one-character strings, so that     *)
(* toLowerCase, trim, includes, replace and the edit distance are computed *)
(* as the code computes them.  A similarity score is a pair <<n, d>>       *)
(* standing for the number n/d.                                            *)
(***************************************************************************)
EXTENDS Integers, Sequences, FiniteSets, TLC

VARIABLES
  bSheet, bHeader, bPadding, bRegion,      \* one call of findTableBoundaries
  workbook, tableMappings, call, result, firstResult, calls,   \* detectTable
  response,                                \* POST /detect-and-capture
  revision, clock, fs, req                 \* render pipeline and its requests

vars == <<bSheet, bHeader, bPadding, bRegion,
          workbook, tableMappings, call, result, firstResult, calls, response,
          revision, clock, fs, req>>

boundaryVars == <<bSheet, bHeader, bPadding, bRegion>>
detectVars == <<workbook, tableMappings, call, result, firstResult, calls, response>>
renderVars == <<revision, clock, fs, req>>

(***************************************************************************)
(* Strings                                                                 *)
(***************************************************************************)
UpperChars == <<"A","B","C","D","E","F","G","H","I","J","K","L","M","N","O","P","Q","R","S","T","U","V","W","X","Y","Z">>
LowerChars == <<"a","b","c","d","e","f","g","h","i","j","k","l","m","n","o","p","q","r","s","t","u","v","w","x","y","z">>
Digits == {"0","1","2","3","4","5","6","7","8","9"}

Min(a, b) == IF a <= b THEN a ELSE b
Max(a, b) == IF a >= b THEN a ELSE b

\* the lower-case form of each upper-case letter
LowerOf == [c \in {UpperChars[i] : i \in 1..Len(UpperChars)} |->
              LowerChars[CHOOSE i \in 1..Len(UpperChars) : UpperChars[i] = c]]

toLowerChar(c) == IF c \in DOMAIN LowerOf THEN LowerOf[c] ELSE c

toLowerCase(s) == [i \in 1..Len(s) |-> toLowerChar(s[i])]

IsSpace(c) == c = " "
IsDigit(c) == c \in Digits
IsUpper(c) == \E i \in 1..Len(UpperChars) : UpperChars[i] = c
IsLetter(c) == IsUpper(c) \/ \E i \in 1..Len(LowerChars) : LowerChars[i] = c

\* String.prototype.trim
trim(s) ==
  IF \A i \in 1..Len(s) : IsSpace(s[i]) THEN <<>>
  ELSE SubSeq(s,
         CHOOSE i \in 1..Len(s) :
           ~IsSpace(s[i]) /\ \A j \in 1..(i - 1) : IsSpace(s[j]),
         CHOOSE i \in 1..Len(s) :
           ~IsSpace(s[i]) /\ \A j \in (i + 1)..Len(s) : IsSpace(s[j]))

\* String.prototype.includes
includes(s, sub) ==
  \E i \in 0..(Len(s) - Len(sub)) : SubSeq(s, i + 1, i + Len(sub)) = sub

\* String.prototype.startsWith
startsWith(s, pre) ==
  Len(s) >= Len(pre) /\ SubSeq(s, 1, Len(pre)) = pre

\* the concatenation of parts[first], ..., parts[last], built by halves
RECURSIVE flatten(_, _, _)
flatten(parts, first, last) ==
  IF first > last THEN <<>>
  ELSE IF first = last THEN parts[first]
  ELSE flatten(parts, first, (first + last) \div 2)
       \o flatten(parts, (first + last) \div 2 + 1, last)

\* s.replace(/&/g, 'and')
replaceAmp(s) ==
  flatten([i \in 1..Len(s) |->
             IF s[i] = "&" THEN <<"a","n","d">> ELSE <<s[i]>>], 1, Len(s))

\* s.replace(/\s+/g, ' '): a run of spaces leaves one space
collapseSpaces(s) ==
  flatten([i \in 1..Len(s) |->
             IF IsSpace(s[i])
             THEN IF i < Len(s) /\ IsSpace(s[i + 1]) THEN <<>> ELSE <<" ">>
             ELSE <<s[i]>>], 1, Len(s))

normalizeAmp(s) == collapseSpaces(replaceAmp(s))

(***************************************************************************)
(* levenshteinDistance: matrix[i][j] of the source is matrix[i + 1][j + 1] *)
(* here; row i is for the first i characters of str2, column j for the     *)
(* first j characters of str1.                                             *)
(***************************************************************************)
Min3(a, b, c) == Min(a, Min(b, c))

\* the inner loop over j: cur holds matrix[i][0..Len(cur)-1]
RECURSIVE levRow(_, _, _, _)
levRow(prev, cur, str1, ch) ==
  IF Len(cur) > Len(str1) THEN cur
  ELSE levRow(prev,
              Append(cur, IF ch = str1[Len(cur)]
                          THEN prev[Len(cur)]
                          ELSE Min3(prev[Len(cur)] + 1, cur[Len(cur)] + 1,
                                    prev[Len(cur) + 1] + 1)),
              str1, ch)

\* the outer loop over i: matrix holds rows 0..Len(matrix)-1
RECURSIVE levRows(_, _, _)
levRows(matrix, str1, str2) ==
  IF Len(matrix) > Len(str2) THEN matrix
  ELSE levRows(Append(matrix, levRow(matrix[Len(matrix)], <<Len(matrix)>>,
                                     str1, str2[Len(matrix)])),
               str1, str2)

levenshteinDistance(str1, str2) ==
  levRows(<<[j \in 1..(Len(str1) + 1) |-> j - 1]>>, str1, str2)
    [Len(str2) + 1][Len(str1) + 1]

(***************************************************************************)
(* Scores: <<n, d>> is n/d, d > 0.                                         *)
(***************************************************************************)
ScoreGT(a, b) == a[1] * b[2] > b[1] * a[2]
ScoreGE(a, b) == a[1] * b[2] >= b[1] * a[2]
ScoreEQ(a, b) == a[1] * b[2] = b[1] * a[2]
ScoreMax(a, b) == IF ScoreGT(b, a) THEN b ELSE a

\* lines 385-390: the similarity of the two normalised strings
similarity(normalized1, normalized2) ==
  <<Max(Len(normalized1), Len(normalized2))
      - levenshteinDistance(normalized1, normalized2),
    Max(Len(normalized1), Len(normalized2))>>

\* the match of the normalised strings had equal strings no score of their own
normalizedMatchBySimilarity(normalized1, normalized2) ==
  similarity(normalized1, normalized2)

\* lines 380-383: "Handle & vs and"
normalizedMatch(normalized1, normalized2) ==
  IF normalized1 = normalized2 THEN <<19, 20>>
  ELSE similarity(normalized1, normalized2)

\* lines 374-378 on the lower-cased, trimmed strings
loweredMatch(s1, s2) ==
  IF s1 = s2 THEN <<1, 1>>
  ELSE IF includes(s1, s2) \/ includes(s2, s1) THEN <<9, 10>>
  ELSE normalizedMatch(normalizeAmp(s1), normalizeAmp(s2))

\* fuzzyMatch(str1, str2): 1, 9/10, 19/20 or 1 - distance / maxLength
fuzzyMatch(str1, str2) ==
  loweredMatch(trim(toLowerCase(str1)), trim(toLowerCase(str2)))

(***************************************************************************)
(* Workbook model.  A worksheet is a record                                *)
(*   [name, rowCount, columnCount, cells, merges]                          *)
(* where cells[r][c] is the cell's own record and merges is a set of       *)
(* rectangles <<top, left, bottom, right>>, the master being (top, left).  *)
(* A cell is [kind, str, rkind, bold, fill, border]:                       *)
(*   kind = "null"     no value                                            *)
(*   kind = "str"      a string value, str                                 *)
(*   kind = "num"      a number, str = String(value)                       *)
(*   kind = "formula"  {formula, result}; rkind is the kind of the result  *)
(*                     and str = String(result)                            *)
(* bold is font.bold, fill and border say whether the style carries a      *)
(* fill or a border object.                                                *)
(***************************************************************************)
NullCell ==
  [kind |-> "null", str |-> <<>>, rkind |-> "null",
   bold |-> FALSE, fill |-> FALSE, border |-> FALSE]

\* JavaScript truthiness of a plain (non-object) value
truthy(kind, str) ==
  \/ kind = "str" /\ str # <<>>
  \/ kind = "num" /\ str # <<"0">>

\* the merged region holding (r, c), as a set of at most one rectangle
mergesAt(ws, r, c) ==
  {m \in ws.merges : m[1] <= r /\ r <= m[3] /\ m[2] <= c /\ c <= m[4]}

\* worksheet.getCell(r, c): a cell of a merged region reads the master's value
getCell(ws, r, c) ==
  LET own == ws.cells[r][c]
      ms == mergesAt(ws, r, c)
      m == CHOOSE x \in ms : TRUE
      master == ws.cells[m[1]][m[2]]
  IN IF ms = {}
     THEN [row |-> r, col |-> c, kind |-> own.kind, str |-> own.str,
           rkind |-> own.rkind, bold |-> own.bold, fill |-> own.fill,
           border |-> own.border, isMerged |-> FALSE, masterRow |-> r,
           masterCol |-> c]
     ELSE [row |-> r, col |-> c, kind |-> master.kind, str |-> master.str,
           rkind |-> master.rkind, bold |-> own.bold, fill |-> own.fill,
           border |-> own.border, isMerged |-> TRUE, masterRow |-> m[1],
           masterCol |-> m[2]]

\* !cell.value
noValue(cell) ==
  cell.kind # "formula" /\ ~truthy(cell.kind, cell.str)

\* isCellEmpty(cell)
isCellEmpty(cell) ==
  IF noValue(cell) THEN TRUE
  ELSE IF cell.kind = "formula"
       THEN IF truthy(cell.rkind, cell.str) /\ includes(cell.str, <<"#","N","A","M","E","?">>)
            THEN TRUE
            ELSE ~truthy(cell.rkind, cell.str) \/ trim(cell.str) = <<>>
       ELSE trim(cell.str) = <<>>

\* getCellValue(cell): the display text; a merged cell already carries its
\* master's value, so the recursion into cell.master returns the same text
getCellValue(cell) ==
  IF noValue(cell) THEN <<>>
  ELSE IF cell.kind = "formula"
       THEN LET res == IF truthy(cell.rkind, cell.str) THEN cell.str ELSE <<>>
            IN IF includes(res, <<"#","N","A","M","E","?">>) \/ includes(res, <<"#","R","E","F","!">>)
               THEN <<>>
               ELSE res
       ELSE cell.str

\* getMergedRange(worksheet, cell): a set of at most one range
getMergedRange(ws, cell) ==
  IF ~cell.isMerged THEN {}
  ELSE {[startRow |-> m[1], startCol |-> m[2], endRow |-> m[3], endCol |-> m[4]] :
          m \in mergesAt(ws, cell.row, cell.col)}

(***************************************************************************)
(* isTableData and its regular expressions                                 *)
(***************************************************************************)
allIn(s, P(_)) == \A i \in 1..Len(s) : P(s[i])

optHead(s, chars) ==
  {s} \cup (IF s # <<>> /\ Head(s) \in chars THEN {Tail(s)} ELSE {})

optLast(s, chars) ==
  {s} \cup (IF s # <<>> /\ s[Len(s)] \in chars THEN {SubSeq(s, 1, Len(s) - 1)} ELSE {})

IsDigitOrComma(c) == IsDigit(c) \/ c = ","

\* /^[\d,]+\.?\d*$/ (commas = TRUE) or /^\d+\.?\d*$/ (commas = FALSE)
reNumber(s, commas) ==
  \E k \in 1..Len(s) :
    /\ \A i \in 1..k : IF commas THEN IsDigitOrComma(s[i]) ELSE IsDigit(s[i])
    /\ LET rest == SubSeq(s, k + 1, Len(s))
       IN \E t \in optHead(rest, {"."}) : allIn(t, IsDigit)

\* /^\$?[\d,]+\.?\d*$/
reCurrency(s) == \E t \in optHead(s, {"$"}) : reNumber(t, TRUE)
\* /^-?\$?[\d,]+\.?\d*$/
reNegative(s) == \E t \in optHead(s, {"-"}) : reCurrency(t)
\* /^\d+\.?\d*%?$/
rePercent(s) == \E t \in optLast(s, {"%"}) : reNumber(t, FALSE)
\* /^[\(\)]?\$?[\d,]+\.?\d*[\(\)]?$/
reAccounting(s) ==
  \E t \in optHead(s, {"(", ")"}) : \E u \in optLast(t, {"(", ")"}) : reCurrency(u)
\* /^[A-Z]\d+$/
reCellRef(s) ==
  Len(s) >= 2 /\ IsUpper(s[1]) /\ \A i \in 2..Len(s) : IsDigit(s[i])
\* /^[A-Za-z\s\-&\/]+$/
IsLabelChar(c) == IsLetter(c) \/ IsSpace(c) \/ c \in {"-", "&", "/"}
reLabel(s) == s # <<>> /\ allIn(s, IsLabelChar)

\* isTableData(value, cell)
isTableData(value, cell) ==
  LET trimmedValue == trim(value)
      lowerValue == toLowerCase(trimmedValue)
  IN IF trimmedValue = <<>> THEN FALSE
     ELSE IF reCurrency(trimmedValue) \/ reNegative(trimmedValue)
             \/ rePercent(trimmedValue) \/ reAccounting(trimmedValue) THEN TRUE
     ELSE IF \/ includes(lowerValue, <<"t","o","t","a","l">>)
             \/ includes(lowerValue, <<"s","u","b","t","o","t","a","l">>)
             \/ includes(lowerValue, <<"l","o","a","n">>)
             \/ includes(lowerValue, <<"e","q","u","i","t","y">>)
             \/ includes(lowerValue, <<"c","o","s","t">>)
             \/ includes(lowerValue, <<"v","a","l","u","e">>) THEN TRUE
     ELSE IF Len(trimmedValue) > 3 /\ ~reCellRef(trimmedValue)
          THEN IF cell.bold \/ cell.border THEN TRUE
               ELSE reLabel(trimmedValue) /\ Len(trimmedValue) < 50
          ELSE FALSE

(***************************************************************************)
(* findTableBoundaries                                                     *)
(***************************************************************************)
DataRowWindow == 10          \* rows below the header probed for column data
RightColWindow == 20         \* columns right of the header that are scanned
GapScanLimit == 15           \* gaps are bridged only left of headerCol + 15
MaxConsecutiveEmptyCols == 3 \* consecutive non-live columns bridged
TopRowWindow == 3            \* rows above the header probed for a header band
BottomRowWindow == 50        \* rows below the header that are scanned
MaxFinalPadding == 1         \* finalPadding = Math.min(padding, 1)

\* the inner loop of steps 2 and 3: does column col hold table data in rows
\* headerRow .. headerRow + 10
colHasTableData(ws, headerRow, col) ==
  \E r \in headerRow..Min(headerRow + DataRowWindow, ws.rowCount) :
    LET cell == getCell(ws, r, col)
    IN isTableData(getCellValue(cell), cell)

\* Step 1: the header cell's merged extent
headerExtent(ws, headerRow, headerCol) ==
  LET headerCell == getCell(ws, headerRow, headerCol)
      mr == getMergedRange(ws, headerCell)
      m == CHOOSE x \in mr : TRUE
  IN IF mr = {} THEN [leftCol |-> headerCol, rightCol |-> headerCol]
     ELSE [leftCol |-> Min(headerCol, m.startCol),
           rightCol |-> Max(headerCol, m.endCol)]

\* Step 2: the loop  for (col = headerCol; col >= 1; col--)
RECURSIVE leftScan(_, _, _, _, _)
leftScan(ws, headerRow, col, leftCol, foundDataLeft) ==
  IF col < 1 THEN leftCol
  ELSE IF colHasTableData(ws, headerRow, col)
       THEN leftScan(ws, headerRow, col - 1, col, TRUE)
       ELSE IF foundDataLeft THEN leftCol
            ELSE leftScan(ws, headerRow, col - 1, leftCol, FALSE)

\* Step 3, one pass of the loop body on st = [rightmostDataCol,
\* consecutiveEmptyCols, gapCols, hasSignificantGap, stopped], stopped being
\* set by the break
rightStep(ws, headerRow, headerCol, col, st) ==
  IF colHasTableData(ws, headerRow, col)
  THEN [st EXCEPT !.rightmostDataCol = col,
                  !.consecutiveEmptyCols = 0,
                  !.hasSignificantGap =
                     \/ @
                     \/ (st.gapCols # <<>> /\ col - st.gapCols[Len(st.gapCols)] > 1)]
  ELSE LET st2 == [st EXCEPT !.consecutiveEmptyCols = @ + 1,
                             !.gapCols = Append(@, col)]
       IN IF st2.consecutiveEmptyCols <= MaxConsecutiveEmptyCols
             /\ col < headerCol + GapScanLimit
          THEN st2
          ELSE IF ~st2.hasSignificantGap THEN [st2 EXCEPT !.stopped = TRUE]
               ELSE st2

\* Step 3: the passes for columns first..last in order, taken by halves
RECURSIVE rightLoop(_, _, _, _, _, _)
rightLoop(ws, headerRow, headerCol, st, first, last) ==
  IF st.stopped \/ first > last THEN st
  ELSE IF first = last THEN rightStep(ws, headerRow, headerCol, first, st)
       ELSE rightLoop(ws, headerRow, headerCol,
                      rightLoop(ws, headerRow, headerCol, st,
                                first, (first + last) \div 2),
                      (first + last) \div 2 + 1, last)

\* Step 3: the loop  for (col = headerCol; col <= min(columnCount, headerCol + 20); col++)
rightScan(ws, headerRow, headerCol, col, st) ==
  rightLoop(ws, headerRow, headerCol, st,
            col, Min(ws.columnCount, headerCol + RightColWindow))

inGap(gapCols, col) == \E i \in 1..Len(gapCols) : gapCols[i] = col

\* Step 4, inner loop: a header-like cell in row, columns leftCol..rightCol
rowHasHeaderContent(ws, row, leftCol, rightCol, gapCols) ==
  \E col \in leftCol..rightCol :
    /\ ~inGap(gapCols, col)
    /\ LET cell == getCell(ws, row, col)
           value == getCellValue(cell)
       IN /\ value # <<>>
          /\ \/ cell.bold
             \/ cell.fill
             \/ includes(toLowerCase(value), <<"s","o","u","r","c","e">>)
             \/ includes(toLowerCase(value), <<"u","s","e">>)
             \/ includes(toLowerCase(value), <<"a","m","o","u","n","t">>)

\* the upward loop had it run to the first row of the sheet
RECURSIVE topScanToFirstRow(_, _, _, _, _, _, _)
topScanToFirstRow(ws, headerRow, row, topRow, leftCol, rightCol, gapCols) ==
  IF row < 1 THEN topRow
  ELSE IF rowHasHeaderContent(ws, row, leftCol, rightCol, gapCols)
       THEN topScanToFirstRow(ws, headerRow, row - 1, row, leftCol, rightCol, gapCols)
       ELSE topRow

\* Step 4: the loop  for (row = headerRow - 1; row >= max(1, headerRow - 3); row--)
RECURSIVE topScan(_, _, _, _, _, _, _)
topScan(ws, headerRow, row, topRow, leftCol, rightCol, gapCols) ==
  IF row < Max(1, headerRow - TopRowWindow) THEN topRow
  ELSE IF rowHasHeaderContent(ws, row, leftCol, rightCol, gapCols)
       THEN topScan(ws, headerRow, row - 1, row, leftCol, rightCol, gapCols)
       ELSE topRow

\* Step 5, inner loop: the lower-cased texts of the non-empty cells of a row
rowValues(ws, row, col, rightCol, gapCols) ==
  flatten([c \in col..rightCol |->
             IF /\ ~inGap(gapCols, c)
                /\ getCellValue(getCell(ws, row, c)) # <<>>
                /\ ~isCellEmpty(getCell(ws, row, c))
             THEN <<toLowerCase(getCellValue(getCell(ws, row, c)))>>
             ELSE <<>>], col, rightCol)

\* Array.prototype.join(' ')
join(values) ==
  flatten([i \in 1..Len(values) |->
             IF i = 1 THEN values[i] ELSE <<" ">> \o values[i]],
          1, Len(values))

\* the total-row test had it looked for "grand total"
isGrandTotalRow(values) ==
  includes(join(values), <<"g","r","a","n","d"," ","t","o","t","a","l">>)

isTotalRow(values) ==
  LET rowText == join(values)
  IN includes(rowText, <<"t","o","t","a","l">>) /\ ~includes(rowText, <<"s","u","b","t","o","t","a","l">>)

\* Step 5, one pass of the loop body on st = [lastDataRow, bottomRow,
\* foundTotal, stopped], stopped being set by either break
bottomStep(ws, row, values, st) ==
  IF values # <<>>
  THEN IF isTotalRow(values)
       THEN [st EXCEPT !.lastDataRow = row, !.bottomRow = row,
                       !.foundTotal = TRUE, !.stopped = TRUE]
       ELSE [st EXCEPT !.lastDataRow = row]
  ELSE IF row - st.lastDataRow > 1
       THEN [st EXCEPT !.stopped = TRUE]
       ELSE st

\* Step 5: the passes for rows first..last in order, taken by halves
RECURSIVE bottomLoop(_, _, _, _, _, _, _)
bottomLoop(ws, st, first, last, leftCol, rightCol, gapCols) ==
  IF st.stopped \/ first > last THEN st
  ELSE IF first = last
       THEN bottomStep(ws, first,
                       rowValues(ws, first, leftCol, rightCol, gapCols), st)
       ELSE bottomLoop(ws,
                       bottomLoop(ws, st, first, (first + last) \div 2,
                                  leftCol, rightCol, gapCols),
                       (first + last) \div 2 + 1, last,
                       leftCol, rightCol, gapCols)

\* if (!foundTotal) bottomRow = lastDataRow
bottomOf(st) ==
  IF st.foundTotal THEN [bottomRow |-> st.bottomRow, foundTotal |-> TRUE]
  ELSE [bottomRow |-> st.lastDataRow, foundTotal |-> FALSE]

\* Step 5: the loop  for (row = headerRow + 1; row <= min(rowCount, headerRow + 50); row++)
\* followed by  if (!foundTotal) bottomRow = lastDataRow
bottomScan(ws, headerRow, row, lastDataRow, leftCol, rightCol, gapCols) ==
  bottomOf(bottomLoop(ws,
                      [lastDataRow |-> lastDataRow, bottomRow |-> headerRow,
                       foundTotal |-> FALSE, stopped |-> FALSE],
                      row, Min(ws.rowCount, headerRow + BottomRowWindow),
                      leftCol, rightCol, gapCols))

\* paddedRange with the sign error  topRow + finalPadding  in its first line
paddedRangeShiftedDown(ws, topRow, bottomRow, leftCol, rightCol, padding) ==
  LET finalPadding == Min(padding, MaxFinalPadding)
  IN [startRow |-> Max(1, topRow + finalPadding),
      endRow |-> Min(ws.rowCount, bottomRow + finalPadding),
      startCol |-> Max(1, leftCol - finalPadding),
      endCol |-> Min(ws.columnCount, rightCol + finalPadding)]

\* "Apply minimal padding": the padded, clipped rectangle
paddedRange(ws, topRow, bottomRow, leftCol, rightCol, padding) ==
  LET finalPadding == Min(padding, MaxFinalPadding)
  IN [startRow |-> Max(1, topRow - finalPadding),
      endRow |-> Min(ws.rowCount, bottomRow + finalPadding),
      startCol |-> Max(1, leftCol - finalPadding),
      endCol |-> Min(ws.columnCount, rightCol + finalPadding)]

\* findTableBoundaries(worksheet, headerMatch, padding)
findTableBoundaries(ws, headerMatch, padding) ==
  LET headerRow == headerMatch.row
      headerCol == headerMatch.col
      ext == headerExtent(ws, headerRow, headerCol)
      leftCol == leftScan(ws, headerRow, headerCol, ext.leftCol, FALSE)
      right == rightScan(ws, headerRow, headerCol, headerCol,
                 [rightmostDataCol |-> headerCol, consecutiveEmptyCols |-> 0,
                  gapCols |-> <<>>, hasSignificantGap |-> FALSE,
                  stopped |-> FALSE])
      rightCol == right.rightmostDataCol
      gapCols == right.gapCols
      topRow == topScan(ws, headerRow, headerRow - 1, headerRow,
                        leftCol, rightCol, gapCols)
      bottom == bottomScan(ws, headerRow, headerRow + 1, headerRow,
                           leftCol, rightCol, gapCols)
      rng == paddedRange(ws, topRow, bottom.bottomRow, leftCol, rightCol, padding)
  IN [startRow |-> rng.startRow, endRow |-> rng.endRow,
      startCol |-> rng.startCol, endCol |-> rng.endCol,
      headerRow |-> headerRow, headerCol |-> headerCol,
      hasGap |-> right.hasSignificantGap, gapColumns |-> gapCols,
      foundTotal |-> bottom.foundTotal,
      actualBounds |-> [topRow |-> topRow, bottomRow |-> bottom.bottomRow,
                        leftCol |-> leftCol, rightCol |-> rightCol]]

(***************************************************************************)
(* Worksheets the boundary expansion is run on: every sequence of at most  *)
(* MaxRows rows, each row one of the row shapes below, three columns wide. *)
(* A "merged" row is a header whose cell is merged over columns 1 and 2.   *)
(***************************************************************************)
MaxRows == 4
MaxPadding == 2

textCell(s) ==
  [kind |-> "str", str |-> s, rkind |-> "null",
   bold |-> FALSE, fill |-> FALSE, border |-> FALSE]
numberCell(s) ==
  [kind |-> "num", str |-> s, rkind |-> "null",
   bold |-> FALSE, fill |-> FALSE, border |-> FALSE]
headerCell(s) ==
  [kind |-> "str", str |-> s, rkind |-> "null",
   bold |-> TRUE, fill |-> TRUE, border |-> FALSE]

RowShapes ==
  [empty |-> <<NullCell, NullCell, NullCell>>,
   header |-> <<headerCell(<<"S","o","u","r","c","e","s"," ","a","n","d"," ","U","s","e","s">>), NullCell, NullCell>>,
   merged |-> <<headerCell(<<"S","o","u","r","c","e","s"," ","a","n","d"," ","U","s","e","s">>), NullCell, NullCell>>,
   body |-> <<textCell(<<"L","a","n","d">>), numberCell(<<"1","0","0">>), NullCell>>,
   total |-> <<textCell(<<"T","o","t","a","l"," ","U","s","e","s">>), numberCell(<<"5","0","0">>), NullCell>>,
   footnote |-> <<textCell(<<"*","E","s","t","i","m","a","t","e","d">>), NullCell, NullCell>>,
   other |-> <<headerCell(<<"L","o","a","n"," ","t","o"," ","C","o","s","t">>), NullCell, numberCell(<<"0">>)>>,
   variant |-> <<headerCell(<<"S","o","u","r","c","e"," ","&"," ","U","s","e">>), NullCell, NullCell>>,
   short |-> <<headerCell(<<"L","T","V">>), NullCell, NullCell>>,
   near |-> <<textCell(<<"l","e","a","n"," ","c","o","a","t","s">>), NullCell, NullCell>>,
   typo |-> <<NullCell, textCell(<<"S","o","u","r","c","e","s"," ","a","m","d"," ","U","s","e","s">>), NullCell>>,
   spaced |-> <<NullCell, NullCell, textCell(<<"S","o","u","r","c","e","s"," "," ","&"," "," ","U","s","e","s">>)>>,
   pair |-> <<textCell(<<"L","o","a","n"," ","t","o"," ","C","a","s","t">>), textCell(<<"S","o","u","r","c","e","s"," ","o","r"," ","U","s","e","s">>),
              textCell(<<"L","o","a","n"," ","C","o","s","t","s">>)>>]

RowShapeNames ==
  {"empty", "header", "merged", "body", "total", "footnote", "other"}

sheetOfRows(name, shapes) ==
  [name |-> name,
   rowCount |-> Len(shapes),
   columnCount |-> 3,
   cells |-> [r \in 1..Len(shapes) |-> RowShapes[shapes[r]]],
   merges |-> {<<r, 1, r, 2>> : r \in {q \in 1..Len(shapes) : shapes[q] = "merged"}}]

BoundarySheets ==
  {sheetOfRows(<<"S","&","U">>, shapes) :
     shapes \in UNION {[1..n -> RowShapeNames] : n \in 1..MaxRows}}

\* the cells findTableHeader can return: non-empty text, not a non-master
\* cell of a merged region
headerCandidates(ws) ==
  {rc \in (1..ws.rowCount) \X (1..ws.columnCount) :
     LET cell == getCell(ws, rc[1], rc[2])
     IN /\ getCellValue(cell) # <<>>
        /\ (cell.isMerged => (cell.masterRow = rc[1] /\ cell.masterCol = rc[2]))}

InitBoundary ==
  /\ bSheet \in BoundarySheets
  /\ bHeader \in {[row |-> rc[1], col |-> rc[2]] : rc \in headerCandidates(bSheet)}
  /\ bPadding \in 0..MaxPadding
  /\ bRegion = <<>>
  /\ workbook = <<>> /\ tableMappings = <<>> /\ call = <<>> /\ result = <<>>
  /\ firstResult = {} /\ calls = 0 /\ response = <<>>
  /\ revision = "none" /\ clock = 0 /\ fs = {} /\ req = <<>>

CallFindTableBoundaries ==
  /\ bRegion = <<>>
  /\ bRegion' = <<findTableBoundaries(bSheet, bHeader, bPadding)>>
  /\ UNCHANGED <<bSheet, bHeader, bPadding>>
  /\ UNCHANGED detectVars
  /\ UNCHANGED renderVars

NextBoundary == CallFindTableBoundaries

SpecBoundary == InitBoundary /\ [][NextBoundary]_vars

(***************************************************************************)
(* TABLE_MAPPINGS: canonical table name -> variations.  The object is      *)
(* process-wide and findTableHeader pushes onto its arrays, so its current *)
(* contents are the state variable tableMappings.                          *)
(***************************************************************************)
TABLE_MAPPINGS ==
  (<<"S","o","u","r","c","e","s"," ","a","n","d"," ","U","s","e","s">> :>
     << <<"s","o","u","r","c","e","s"," ","a","n","d"," ","u","s","e","s">>, <<"s","o","u","r","c","e","s"," ","&"," ","u","s","e","s">>, <<"s","o","u","r","c","e"," ","a","n","d"," ","u","s","e">>,
        <<"s","o","u","r","c","e"," ","&"," ","u","s","e">>, <<"s","o","u","r","c","e","s"," ","/"," ","u","s","e","s">>, <<"s","o","u","r","c","e","s","/","u","s","e","s">> >>)
  @@ (<<"T","a","k","e"," ","O","u","t"," ","L","o","a","n"," ","S","i","z","i","n","g">> :>
     << <<"t","a","k","e"," ","o","u","t"," ","l","o","a","n"," ","s","i","z","i","n","g">>, <<"t","a","k","e","o","u","t"," ","l","o","a","n"," ","s","i","z","i","n","g">>,
        <<"t","a","k","e","-","o","u","t"," ","l","o","a","n"," ","s","i","z","i","n","g">>, <<"l","o","a","n"," ","s","i","z","i","n","g">>, <<"t","a","k","e","o","u","t"," ","s","i","z","i","n","g">>,
        <<"t","a","k","e"," ","o","u","t"," ","s","i","z","i","n","g">> >>)
  @@ (<<"C","a","p","i","t","a","l"," ","S","t","a","c","k"," ","a","t"," ","C","l","o","s","i","n","g">> :>
     << <<"c","a","p","i","t","a","l"," ","s","t","a","c","k"," ","a","t"," ","c","l","o","s","i","n","g">>, <<"c","a","p","i","t","a","l"," ","s","t","a","c","k">>,
        <<"c","a","p"," ","s","t","a","c","k"," ","a","t"," ","c","l","o","s","i","n","g">>, <<"c","a","p"," ","s","t","a","c","k">>, <<"c","a","p","i","t","a","l"," ","s","t","a","c","k"," ","c","l","o","s","i","n","g">> >>)
  @@ (<<"L","o","a","n"," ","t","o"," ","C","o","s","t">> :>
     << <<"l","o","a","n"," ","t","o"," ","c","o","s","t">>, <<"l","t","c">>, <<"l","o","a","n","-","t","o","-","c","o","s","t">>, <<"l","2","c">>, <<"l","o","a","n"," ","c","o","s","t">>,
        <<"l","t","c"," ","a","n","a","l","y","s","i","s">> >>)
  @@ (<<"L","o","a","n"," ","t","o"," ","V","a","l","u","e">> :>
     << <<"l","o","a","n"," ","t","o"," ","v","a","l","u","e">>, <<"l","t","v">>, <<"l","o","a","n","-","t","o","-","v","a","l","u","e">>, <<"l","2","v">>, <<"l","o","a","n"," ","v","a","l","u","e">>,
        <<"l","t","v"," ","a","n","a","l","y","s","i","s">> >>)
  @@ (<<"P","I","L","O","T"," ","S","c","h","e","d","u","l","e">> :>
     << <<"p","i","l","o","t"," ","s","c","h","e","d","u","l","e">>, <<"p","i","l","o","t">>, <<"p","a","y","m","e","n","t"," ","i","n"," ","l","i","e","u"," ","o","f"," ","t","a","x","e","s">>,
        <<"p",".","i",".","l",".","o",".","t">>, <<"p","i","l","o","t"," ","p","a","y","m","e","n","t">> >>)
  @@ (<<"O","c","c","u","p","a","n","c","y">> :>
     << <<"o","c","c","u","p","a","n","c","y">>, <<"u","n","i","t"," ","m","i","x">>, <<"u","n","i","t"," ","o","c","c","u","p","a","n","c","y">>,
        <<"o","c","c","u","p","a","n","c","y"," ","s","c","h","e","d","u","l","e">> >>)
  @@ (<<"L","T","C"," ","a","n","d"," ","L","T","V">> :>
     << <<"l","t","c"," ","a","n","d"," ","l","t","v">>, <<"l","t","v"," ","a","n","d"," ","l","t","c">>, <<"l","t","c"," ","&"," ","l","t","v">>, <<"l","t","v"," ","&"," ","l","t","c">>,
        <<"l","t","c","/","l","t","v">>, <<"l","t","v","/","l","t","c">> >>)

\* Object.keys(TABLE_MAPPINGS), in insertion order
TABLE_KEYS ==
  << <<"S","o","u","r","c","e","s"," ","a","n","d"," ","U","s","e","s">>, <<"T","a","k","e"," ","O","u","t"," ","L","o","a","n"," ","S","i","z","i","n","g">>,
     <<"C","a","p","i","t","a","l"," ","S","t","a","c","k"," ","a","t"," ","C","l","o","s","i","n","g">>, <<"L","o","a","n"," ","t","o"," ","C","o","s","t">>, <<"L","o","a","n"," ","t","o"," ","V","a","l","u","e">>,
     <<"P","I","L","O","T"," ","S","c","h","e","d","u","l","e">>, <<"O","c","c","u","p","a","n","c","y">>, <<"L","T","C"," ","a","n","d"," ","L","T","V">> >>

(***************************************************************************)
(* findSheet(workbook, targetNames): the index of the sheet returned, 0    *)
(* for null.  A workbook is the sequence of its worksheets.                *)
(***************************************************************************)
commonSheetPatterns ==
  << [key |-> <<"s","o","u","r","c","e","s"," ","a","n","d"," ","u","s","e","s">>,
      patterns |-> << <<"s","&","u">>, <<"s","u">>, <<"s","o","u","r","c","e","s"," ","u","s","e","s">>, <<"s","o","u","r","c","e","s"," ","&"," ","u","s","e","s">>,
                      <<"s"," ","&"," ","u">> >>],
     [key |-> <<"l","t","c">>,
      patterns |-> << <<"l","t","c"," ","a","n","d"," ","l","t","v"," ","c","a","l","c","s">>, <<"l","t","v"," ","l","t","c">>, <<"l","t","c"," ","l","t","v">>,
                      <<"l","t","c"," ","a","n","d"," ","l","t","v">>, <<"l","t","v"," ","a","n","d"," ","l","t","c">> >>],
     [key |-> <<"p","i","l","o","t">>,
      patterns |-> << <<"p","i","l","o","t">>, <<"p","i","l","o","t"," ","s","c","h","e","d","u","l","e">> >>],
     [key |-> <<"c","a","p","i","t","a","l">>,
      patterns |-> << <<"c","a","p","i","t","a","l"," ","s","t","a","c","k">>, <<"c","a","p"," ","s","t","a","c","k">> >> ] >>

\* if (patternScore > score) score = patternScore, for each pattern
RECURSIVE maxPatternScore(_, _, _, _)
maxPatternScore(sheetName, patterns, i, score) ==
  IF i > Len(patterns) THEN score
  ELSE IF ScoreGT(fuzzyMatch(sheetName, patterns[i]), score)
       THEN maxPatternScore(sheetName, patterns, i + 1,
                            fuzzyMatch(sheetName, patterns[i]))
       ELSE maxPatternScore(sheetName, patterns, i + 1, score)

RECURSIVE commonPatternScore(_, _, _, _)
commonPatternScore(sheetName, targetLower, k, score) ==
  IF k > Len(commonSheetPatterns) THEN score
  ELSE commonPatternScore(sheetName, targetLower, k + 1,
         IF includes(targetLower, commonSheetPatterns[k].key)
         THEN maxPatternScore(sheetName, commonSheetPatterns[k].patterns, 1, score)
         ELSE score)

SubstringBoost == <<17, 20>>     \* 0.85
SheetThreshold == <<1, 2>>       \* 0.5

\* "Boost score for exact substring matches"
boosted(score, sheetName, targetLower) ==
  IF includes(sheetName, targetLower) \/ includes(targetLower, sheetName)
  THEN ScoreMax(score, SubstringBoost)
  ELSE score

\* the score of one sheet name against one target name
sheetScore(name, target) ==
  LET sheetName == trim(toLowerCase(name))
      targetLower == trim(toLowerCase(target))
  IN boosted(commonPatternScore(sheetName, targetLower, 1,
                                fuzzyMatch(sheetName, targetLower)),
             sheetName, targetLower)

\* the comparison had it been score >= bestScore
betterOrEqualSheet(best, score) == ScoreGE(score, best.score)

\* if (score > bestScore)
betterSheet(best, score) == ScoreGT(score, best.score)

\* the two nested loops of findSheet; best = [index, score] stands for
\* bestMatch and bestScore
RECURSIVE findSheetLoop(_, _, _, _, _)
findSheetLoop(wb, targetNames, s, t, best) ==
  IF s > Len(wb) THEN best
  ELSE IF t > Len(targetNames) THEN findSheetLoop(wb, targetNames, s + 1, 1, best)
  ELSE IF betterSheet(best, sheetScore(wb[s].name, targetNames[t]))
       THEN findSheetLoop(wb, targetNames, s, t + 1,
              [index |-> s, score |-> sheetScore(wb[s].name, targetNames[t])])
       ELSE findSheetLoop(wb, targetNames, s, t + 1, best)

\* return bestScore > 0.5 ? bestMatch : null
acceptedSheet(best) ==
  IF ScoreGT(best.score, SheetThreshold) THEN best.index ELSE 0

findSheet(wb, targetNames) ==
  acceptedSheet(findSheetLoop(wb, targetNames, 1, 1,
                              [index |-> 0, score |-> <<0, 1>>]))

(***************************************************************************)
(* findTableHeader(worksheet, tableName)                                   *)
(***************************************************************************)
HeaderMaxRows == 200
HeaderMaxCols == 30
HeaderThreshold == <<7, 10>>     \* 0.7
ExactThreshold == <<19, 20>>     \* 0.95

\* variations, after  variations.push(tableName.toLowerCase())
headerVariations(mappings, tableName) ==
  IF tableName \in DOMAIN mappings
  THEN Append(mappings[tableName], toLowerCase(tableName))
  ELSE <<toLowerCase(tableName), toLowerCase(tableName)>>

\* TABLE_MAPPINGS had the call assigned a fresh array to the entry
mappingsReplacedByHeaderSearch(mappings, tableName) ==
  IF tableName \in DOMAIN mappings
  THEN [mappings EXCEPT ![tableName] = <<toLowerCase(tableName)>>]
  ELSE mappings

\* TABLE_MAPPINGS after the call: the push lands in the shared array of a
\* known table name
mappingsAfterHeaderSearch(mappings, tableName) ==
  IF tableName \in DOMAIN mappings
  THEN [mappings EXCEPT ![tableName] = Append(@, toLowerCase(tableName))]
  ELSE mappings

\* the cells the scan reads: it skips the non-master cells of a merged region
isScanned(cell) ==
  cell.isMerged => (cell.masterRow = cell.row /\ cell.masterCol = cell.col)

\* the match pushed had the test been score >= 0.7
matchOfAtThreshold(cell, cellValue, score) ==
  IF ScoreGE(score, HeaderThreshold)
  THEN <<[row |-> cell.row, col |-> cell.col, value |-> cellValue,
          score |-> score,
          confidence |-> IF ScoreGE(score, ExactThreshold)
                         THEN "exact" ELSE "fuzzy"]>>
  ELSE <<>>

\* the match pushed for one variation, if its score passes the threshold
matchOf(cell, cellValue, score) ==
  IF ScoreGT(score, HeaderThreshold)
  THEN <<[row |-> cell.row, col |-> cell.col, value |-> cellValue,
          score |-> score,
          confidence |-> IF ScoreGE(score, ExactThreshold)
                         THEN "exact" ELSE "fuzzy"]>>
  ELSE <<>>

RECURSIVE cellMatches(_, _, _, _)
cellMatches(cell, cellValue, variations, i) ==
  IF i > Len(variations) THEN <<>>
  ELSE matchOf(cell, cellValue, fuzzyMatch(cellValue, variations[i]))
       \o cellMatches(cell, cellValue, variations, i + 1)

\* if (!cellValue) continue
valueMatches(cell, cellValue, variations) ==
  IF cellValue # <<>> THEN cellMatches(cell, cellValue, variations, 1) ELSE <<>>

\* "Skip merged cells (except master cell)"
scannedMatches(cell, variations) ==
  IF isScanned(cell) THEN valueMatches(cell, getCellValue(cell), variations)
  ELSE <<>>

\* the loops over rows first..last and the columns of each: the matches
\* array, in push order
headerMatches(ws, variations, first, last) ==
  flatten([row \in first..last |->
             flatten([col \in 1..Min(HeaderMaxCols, ws.columnCount) |->
                        scannedMatches(getCell(ws, row, col), variations)],
                     1, Min(HeaderMaxCols, ws.columnCount))],
          first, last)

\* matches.sort((a, b) => b.score - a.score)[0]: the sort is stable, so the
\* first element is the earliest pushed match of maximal score; <<>> is null
bestMatch(matches) ==
  IF matches = <<>> THEN <<>>
  ELSE LET i == CHOOSE k \in 1..Len(matches) :
                  /\ \A j \in 1..Len(matches) : ScoreGE(matches[k].score, matches[j].score)
                  /\ \A j \in 1..(k - 1) : ~ScoreEQ(matches[j].score, matches[k].score)
       IN <<matches[i]>>

findTableHeader(ws, tableName, mappings) ==
  bestMatch(headerMatches(ws, headerVariations(mappings, tableName), 1,
                          Min(HeaderMaxRows, ws.rowCount)))

(***************************************************************************)
(* findSuggestions(worksheet, excludeRow, maxSuggestions)                  *)
(* A suggestion `${value} (${cell.address})` is the record                 *)
(* [value, row, col]; detectTable's ` [${sheet.name}]` adds the sheet.     *)
(***************************************************************************)
SuggestionMaxRows == 200
SuggestionMaxCols == 10
SuggestionMinLength == 3         \* value.length > 3
SuggestionsPerSheet == 3         \* findSuggestions(sheet, -1, 3)
SuggestionsLimit == 8            \* .slice(0, 8)
LikelyThreshold == <<1, 2>>      \* fuzzyMatch(value, key) > 0.5

isLikelyTable(cell, value) ==
  LET valueLower == toLowerCase(value)
  IN \/ cell.bold
     \/ includes(valueLower, <<"t","a","b","l","e">>)
     \/ includes(valueLower, <<"s","c","h","e","d","u","l","e">>)
     \/ includes(valueLower, <<"s","u","m","m","a","r","y">>)
     \/ includes(valueLower, <<"a","n","a","l","y","s","i","s">>)
     \/ \E k \in 1..Len(TABLE_KEYS) :
          ScoreGT(fuzzyMatch(value, TABLE_KEYS[k]), LikelyThreshold)

RECURSIVE suggestionScan(_, _, _, _, _, _, _)
suggestionScan(ws, excludeRow, maxSuggestions, row, col, suggestions, seen) ==
  IF row > Min(SuggestionMaxRows, ws.rowCount) THEN suggestions
  ELSE IF row = excludeRow \/ col > Min(SuggestionMaxCols, ws.columnCount)
       THEN suggestionScan(ws, excludeRow, maxSuggestions, row + 1, 1,
                           suggestions, seen)
  ELSE LET cell == getCell(ws, row, col)
           value == getCellValue(cell)
       IN IF value = <<>> \/ value \in seen
          THEN suggestionScan(ws, excludeRow, maxSuggestions, row, col + 1,
                              suggestions, seen)
          ELSE IF isLikelyTable(cell, value) /\ Len(value) > SuggestionMinLength
               THEN IF Len(suggestions) + 1 >= maxSuggestions
                    THEN Append(suggestions, [value |-> value, row |-> row, col |-> col])
                    ELSE suggestionScan(ws, excludeRow, maxSuggestions, row, col + 1,
                           Append(suggestions, [value |-> value, row |-> row, col |-> col]),
                           seen \cup {value})
               ELSE suggestionScan(ws, excludeRow, maxSuggestions, row, col + 1,
                                   suggestions, seen)

\* the scan had it excluded the first row whatever excludeRow is
findSuggestionsBelowFirstRow(ws, excludeRow, maxSuggestions) ==
  suggestionScan(ws, 1, maxSuggestions, 1, 1, <<>>, {})

findSuggestions(ws, excludeRow, maxSuggestions) ==
  suggestionScan(ws, excludeRow, maxSuggestions, 1, 1, <<>>, {})

(***************************************************************************)
(* detectTable(workbook, tableName, searchSheets, padding)                 *)
(* searchSheets = <<>> stands for null or an empty list.  Sheets are named *)
(* by their index in the workbook.                                         *)
(***************************************************************************)
\* if (sheet) sheetsToSearch.push(sheet)
pushed(sheet) == IF sheet # 0 THEN <<sheet>> ELSE <<>>

\* "Find specified sheets": the resolved candidates, in the order given
RECURSIVE resolveCandidates(_, _, _)
resolveCandidates(wb, searchSheets, i) ==
  IF i > Len(searchSheets) THEN <<>>
  ELSE pushed(findSheet(wb, <<searchSheets[i]>>))
       \o resolveCandidates(wb, searchSheets, i + 1)

\* "If no specific sheets found or for other tables, search all sheets"
orAllSheets(wb, chosen) ==
  IF chosen = <<>> THEN [i \in 1..Len(wb) |-> i] ELSE chosen

\* "Smart sheet selection based on table name"
smartSheets(wb, tableName) ==
  LET tableNameLower == toLowerCase(tableName)
      su == IF \/ includes(tableNameLower, <<"s","o","u","r","c","e","s">>)
               \/ includes(tableNameLower, <<"u","s","e","s">>)
               \/ includes(tableNameLower, <<"c","a","p","i","t","a","l"," ","s","t","a","c","k">>)
               \/ includes(tableNameLower, <<"t","a","k","e","o","u","t">>)
               \/ includes(tableNameLower, <<"t","a","k","e"," ","o","u","t">>)
            THEN pushed(findSheet(wb, << <<"s","&","u">>, <<"s","o","u","r","c","e","s"," ","a","n","d"," ","u","s","e","s">>,
                                         <<"s","u">>, <<"s"," ","&"," ","u">> >>))
            ELSE <<>>
      ltc == IF \/ includes(tableNameLower, <<"l","t","c">>)
                \/ includes(tableNameLower, <<"l","t","v">>)
                \/ includes(tableNameLower, <<"l","o","a","n"," ","t","o">>)
             THEN pushed(findSheet(wb, << <<"l","t","c"," ","a","n","d"," ","l","t","v"," ","c","a","l","c","s">>, <<"l","t","c"," ","l","t","v">>,
                                          <<"l","t","v"," ","l","t","c">> >>))
             ELSE <<>>
      pilot == IF includes(tableNameLower, <<"p","i","l","o","t">>)
               THEN pushed(findSheet(wb, << <<"p","i","l","o","t">>, <<"p","i","l","o","t"," ","s","c","h","e","d","u","l","e">> >>))
               ELSE <<>>
  IN orAllSheets(wb, su \o ltc \o pilot)

\* the selection had it fallen back to all sheets when no candidate resolves
sheetsToSearchOrAll(wb, tableName, searchSheets) ==
  IF searchSheets # <<>>
  THEN orAllSheets(wb, resolveCandidates(wb, searchSheets, 1))
  ELSE smartSheets(wb, tableName)

sheetsToSearch(wb, tableName, searchSheets) ==
  IF searchSheets # <<>>
  THEN resolveCandidates(wb, searchSheets, 1)
  ELSE smartSheets(wb, tableName)

\* results.searchedSheets: pushed beside sheetsToSearch in the first branch,
\* copied from it in the second
searchedSheetNames(wb, sheets) == [i \in 1..Len(sheets) |-> wb[sheets[i]].name]

\* the search loop: [found, index in sheets, match, scanned, mappings];
\* scanned lists the sheets findTableHeader was run on, seen and after are
\* that list and TABLE_MAPPINGS once sheets[i] has been scanned
RECURSIVE searchLoop(_, _, _, _, _, _)
RECURSIVE searchStep(_, _, _, _, _, _, _)
\* the loop had it gone on after a match and kept the last one
searchStepLastWins(wb, tableName, sheets, i, seen, after, headerMatch) ==
  IF headerMatch # <<>> /\ ~searchLoop(wb, tableName, sheets, i + 1, seen, after).found
  THEN [found |-> TRUE, at |-> i, match |-> headerMatch[1], scanned |-> seen,
        mappings |-> after]
  ELSE searchLoop(wb, tableName, sheets, i + 1, seen, after)

searchStep(wb, tableName, sheets, i, seen, after, headerMatch) ==
  IF headerMatch # <<>>
  THEN [found |-> TRUE, at |-> i, match |-> headerMatch[1], scanned |-> seen,
        mappings |-> after]
  ELSE searchLoop(wb, tableName, sheets, i + 1, seen, after)

searchLoop(wb, tableName, sheets, i, scanned, mappings) ==
  IF i > Len(sheets)
  THEN [found |-> FALSE, at |-> 0, match |-> <<>>, scanned |-> scanned,
        mappings |-> mappings]
  ELSE searchStep(wb, tableName, sheets, i,
                  Append(scanned, wb[sheets[i]].name),
                  mappingsAfterHeaderSearch(mappings, tableName),
                  findTableHeader(wb[sheets[i]], tableName, mappings))

\* "Not found - generate suggestions from all searched sheets"
\* `${suggestion} [${sheet.name}]` for each suggestion of one sheet
tagged(sg, name) ==
  [k \in 1..Len(sg) |->
     [value |-> sg[k].value, row |-> sg[k].row, col |-> sg[k].col,
      sheet |-> name]]

RECURSIVE allSuggestions(_, _, _)
allSuggestions(wb, sheets, i) ==
  IF i > Len(sheets) THEN <<>>
  ELSE tagged(findSuggestions(wb[sheets[i]], -1, SuggestionsPerSheet),
              wb[sheets[i]].name)
       \o allSuggestions(wb, sheets, i + 1)

\* [...new Set(list)]: first occurrences, in order
RECURSIVE dedupe(_, _)
dedupe(list, seen) ==
  IF list = <<>> THEN <<>>
  ELSE IF Head(list) \in seen THEN dedupe(Tail(list), seen)
  ELSE <<Head(list)>> \o dedupe(Tail(list), seen \cup {Head(list)})

\* .slice(0, 8)
sliced(unique) == SubSeq(unique, 1, Min(Len(unique), SuggestionsLimit))

notFoundSuggestions(wb, sheets) ==
  sliced(dedupe(allSuggestions(wb, sheets, 1), {}))

\* the results object of a match, with the sheets scanned and TABLE_MAPPINGS
\* afterwards
foundResult(wb, sheets, s, boundaries) ==
  [found |-> TRUE,
   sheet |-> wb[sheets[s.at]].name,
   range |-> <<boundaries.startRow, boundaries.startCol,
               boundaries.endRow, boundaries.endCol>>,
   headerCell |-> <<boundaries.headerRow, boundaries.headerCol>>,
   confidence |-> s.match.confidence,
   searchedSheets |-> searchedSheetNames(wb, sheets),
   suggestions |-> <<>>,
   actualBounds |-> <<boundaries.actualBounds>>,
   scanned |-> s.scanned,
   mappings |-> s.mappings]

\* lines 918-948 once the search loop has run
searchResult(wb, sheets, padding, s) ==
  IF s.found
  THEN foundResult(wb, sheets, s,
                   findTableBoundaries(wb[sheets[s.at]], s.match, padding))
  ELSE [found |-> FALSE,
        sheet |-> <<>>,
        range |-> <<>>,
        headerCell |-> <<>>,
        confidence |-> "none",
        searchedSheets |-> searchedSheetNames(wb, sheets),
        suggestions |-> notFoundSuggestions(wb, sheets),
        actualBounds |-> <<>>,
        scanned |-> s.scanned,
        mappings |-> s.mappings]

\* lines 918-948 on the sheets chosen
searchSheetsFor(wb, tableName, padding, mappings, sheets) ==
  searchResult(wb, sheets, padding,
               searchLoop(wb, tableName, sheets, 1, <<>>, mappings))

detectTable(wb, tableName, searchSheets, padding, mappings) ==
  searchSheetsFor(wb, tableName, padding, mappings,
                  sheetsToSearch(wb, tableName, searchSheets))

(***************************************************************************)
(* POST /detect-and-capture on a decoded workbook: detectTable, then the   *)
(* 404 answer or the rendering, whose outcome is open here (the render     *)
(* pipeline is modelled below).                                            *)
(***************************************************************************)
MaxSheets == 2
MaxCalls == 2

SheetTemplates ==
  { sheetOfRows(<<"S","&","U">>, <<"header", "body">>),
    sheetOfRows(<<"S","&","U">>, <<"short", "body">>),
    sheetOfRows(<<"S","u","m","m","a","r","y">>, <<"variant", "body">>),
    sheetOfRows(<<"L","T","C"," ","a","n","d"," ","L","T","V"," ","C","a","l","c","s">>, <<"other", "body">>) }

\* workbooks: up to MaxSheets sheets with distinct names
DetectWorkbooks ==
  {wb \in UNION {[1..n -> SheetTemplates] : n \in 1..MaxSheets} :
     \A i, j \in 1..Len(wb) : i # j => wb[i].name # wb[j].name}

DetectTableNames == { <<"S","o","u","r","c","e","s"," ","a","n","d"," ","U","s","e","s">>, <<"L","o","a","n"," ","t","o"," ","C","o","s","t">> }
DetectCandidates == { <<>>, << <<"N","o","p","e">>, <<"S","&","U">>, <<"S","u","m","m","a","r","y">> >> }
DetectPaddings == {0, 2}

METHOD == "libreoffice-visual-rendering"

\* what a caller observes of a detection
observed(d) ==
  [found |-> d.found, sheet |-> d.sheet, range |-> d.range,
   headerCell |-> d.headerCell, confidence |-> d.confidence]

notFoundResponse(d) ==
  [status |-> 404, success |-> FALSE, image |-> FALSE, method |-> "none",
   searchedSheets |-> d.searchedSheets, suggestions |-> d.suggestions,
   detected |-> <<>>]

successResponse(d) ==
  [status |-> 200, success |-> TRUE, image |-> TRUE, method |-> METHOD,
   searchedSheets |-> <<>>, suggestions |-> <<>>,
   detected |-> <<[sheet |-> d.sheet, range |-> d.range,
                   headerCell |-> d.headerCell, confidence |-> d.confidence]>>]

errorResponse ==
  [status |-> 500, success |-> FALSE, image |-> FALSE, method |-> "none",
   searchedSheets |-> <<>>, suggestions |-> <<>>, detected |-> <<>>]

InitDetect ==
  /\ workbook \in DetectWorkbooks
  /\ tableMappings = TABLE_MAPPINGS
  /\ call = <<>> /\ result = <<>> /\ firstResult = {} /\ calls = 0
  /\ response = <<>>
  /\ bSheet = <<>> /\ bHeader = <<>> /\ bPadding = 0 /\ bRegion = <<>>
  /\ revision = "none" /\ clock = 0 /\ fs = {} /\ req = <<>>

\* lines 376-434: the answer to request c once detectTable has returned d
Respond(c, d) ==
  /\ call' = <<c>>
  /\ result' = <<d>>
  /\ tableMappings' = d.mappings
  /\ firstResult' = IF \E p \in firstResult : p[1] = c
                    THEN firstResult
                    ELSE firstResult \cup {<<c, observed(d)>>}
  /\ response' \in IF d.found
                   THEN {successResponse(d), errorResponse}
                   ELSE {notFoundResponse(d)}

DetectAndCapture(tableName, searchSheets, padding) ==
  /\ calls < MaxCalls
  /\ Respond([tableName |-> tableName, searchSheets |-> searchSheets,
              padding |-> padding],
             detectTable(workbook, tableName, searchSheets, padding,
                         tableMappings))
  /\ calls' = calls + 1
  /\ UNCHANGED workbook
  /\ UNCHANGED boundaryVars
  /\ UNCHANGED renderVars

NextDetect ==
  \E tableName \in DetectTableNames, searchSheets \in DetectCandidates,
     padding \in DetectPaddings :
    DetectAndCapture(tableName, searchSheets, padding)

SpecDetect == InitDetect /\ [][NextDetect]_vars

(***************************************************************************)
(* Properties of findTableBoundaries, under SpecBoundary.                  *)
(***************************************************************************)
\* the known tables that the text names, by one of their variations
knownTables(text) ==
  {k \in DOMAIN TABLE_MAPPINGS :
     \E i \in 1..Len(TABLE_MAPPINGS[k]) :
       TABLE_MAPPINGS[k][i] = trim(toLowerCase(text))}

\* row r opens another known table: its leading cell is header-styled and
\* names a known table that the header's own text does not name
opensOtherTable(ws, header, leftCol, r) ==
  LET lead == getCell(ws, r, leftCol)
      own == knownTables(getCellValue(getCell(ws, header.row, header.col)))
      other == knownTables(getCellValue(lead))
  IN /\ lead.bold \/ lead.fill
     /\ own # {}
     /\ other # {}
     /\ other \cap own = {}

leadingText(ws, leftCol, r) == toLowerCase(getCellValue(getCell(ws, r, leftCol)))

isTotalLead(ws, leftCol, r) ==
  /\ includes(leadingText(ws, leftCol, r), <<"t","o","t","a","l">>)
  /\ ~includes(leadingText(ws, leftCol, r), <<"s","u","b","t","o","t","a","l">>)

isFootnoteLead(ws, leftCol, r) ==
  startsWith(leadingText(ws, leftCol, r), <<"*">>)

\* below the header: one or more body rows, the total row t, one footnote row
endsInTotalThenFootnote(ws, header, leftCol, t) ==
  /\ header.row + 2 <= t
  /\ t + 1 <= ws.rowCount
  /\ \A r \in (header.row + 1)..(t - 1) :
       /\ leadingText(ws, leftCol, r) # <<>>
       /\ ~isTotalLead(ws, leftCol, r)
       /\ ~isFootnoteLead(ws, leftCol, r)
  /\ isTotalLead(ws, leftCol, t)
  /\ isFootnoteLead(ws, leftCol, t + 1)
  /\ (t + 2 <= ws.rowCount => ~isFootnoteLead(ws, leftCol, t + 2))

(* C1: every region returned by findTableBoundaries, for any sheet, any    *)
(* header match inside the sheet and any padding >= 0, contains the header *)
(* cell: startRow <= headerRow <= endRow and startCol <= headerCol <=      *)
(* endCol.                                                                 *)
C1_HeaderInsideRegion ==
  bRegion # <<>> =>
    /\ bRegion[1].startRow <= bRegion[1].headerRow
    /\ bRegion[1].headerRow <= bRegion[1].endRow
    /\ bRegion[1].startCol <= bRegion[1].headerCol
    /\ bRegion[1].headerCol <= bRegion[1].endCol

\* a padded region that extends strictly beyond its header on three sides
C1_Witness ==
  /\ bRegion # <<>>
  /\ bPadding >= 1
  /\ bRegion[1].startRow < bRegion[1].headerRow
  /\ bRegion[1].headerRow < bRegion[1].endRow
  /\ bRegion[1].headerCol < bRegion[1].endCol
  /\ bRegion[1].startCol < bRegion[1].headerCol

(* C2: adjacent-table boundary: when a row below the header has a          *)
(* header-styled leading cell whose text names a different known table,    *)
(* the downward expansion stops strictly before that row: the bottom row   *)
(* of the unpadded region is above it.                                     *)
C2_StopsBeforeAdjacentTable ==
  bRegion # <<>> =>
    \A r \in (bHeader.row + 1)..bSheet.rowCount :
      opensOtherTable(bSheet, bHeader, bRegion[1].actualBounds.leftCol, r)
        => bRegion[1].actualBounds.bottomRow < r

(* C3: for a table whose body ends in a total row immediately followed by  *)
(* one footnote row beginning with "*", the last row of the returned       *)
(* rectangle is the footnote row, for every padding.                       *)
C3_LastRowIsFootnote ==
  bRegion # <<>> =>
    \A t \in 1..bSheet.rowCount :
      endsInTotalThenFootnote(bSheet, bHeader, bRegion[1].actualBounds.leftCol, t)
        => bRegion[1].endRow = t + 1


\* C12: for every padding p the returned rectangle is the detected bounds
\* expanded by exactly p rows and columns on each side, clipped to the sheet.
C12_ExpandedByPadding ==
  bRegion # <<>>
  => /\ bRegion[1].startRow = Max(1, bRegion[1].actualBounds.topRow - bPadding)
     /\ bRegion[1].endRow
          = Min(bSheet.rowCount, bRegion[1].actualBounds.bottomRow + bPadding)
     /\ bRegion[1].startCol = Max(1, bRegion[1].actualBounds.leftCol - bPadding)
     /\ bRegion[1].endCol
          = Min(bSheet.columnCount, bRegion[1].actualBounds.rightCol + bPadding)

\* the downward scan of the returned region counts row r as live
scanLive(r) ==
  rowValues(bSheet, r, bRegion[1].actualBounds.leftCol,
            bRegion[1].actualBounds.rightCol, bRegion[1].gapColumns) # <<>>

\* the downward scan takes row r for a total row
scanTotal(r) ==
  isTotalRow(rowValues(bSheet, r, bRegion[1].actualBounds.leftCol,
                       bRegion[1].actualBounds.rightCol, bRegion[1].gapColumns))

\* between the header and row r there is no total row and no run of more
\* than n rows that are not live
bridgeable(r, n) ==
  /\ \A q \in (bHeader.row + 1)..(r - 1) : ~scanTotal(q)
  /\ \A q \in (bHeader.row + 1)..(r - 1 - n) :
       \E k \in 0..n : scanLive(q + k)

\* C21: the downward expansion bridges up to 2 consecutive empty rows: a live
\* row that follows, before any total row, runs of at most 2 empty rows is
\* inside the region.
C21_BridgesTwoEmptyRows ==
  bRegion # <<>> =>
    \A r \in (bHeader.row + 1)..bSheet.rowCount :
      (scanLive(r) /\ bridgeable(r, 2))
        => bRegion[1].actualBounds.bottomRow >= r

(***************************************************************************)
(* The "Sources and Uses" scenario: sheet "S&U", header at B7, body rows   *)
(* 8..25, "Total Uses" at row 26, no footnote, nothing header-like above   *)
(* row 7, padding 1.  The sheets vary in what the scenario leaves open:    *)
(* whether rows 5 and 6 are empty or hold plain text, whether column A     *)
(* numbers the body rows, whether rows 15 and 20 are ordinary body rows,   *)
(* subtotals or single empty rows, and what follows row 26.                *)
(***************************************************************************)
scenarioRow(kind, lead) ==
  CASE kind = "empty" -> <<NullCell, NullCell, NullCell>>
    [] kind = "note" -> <<NullCell, textCell(<<"D","r","a","f","t">>), NullCell>>
    [] kind = "header" -> <<NullCell, headerCell(<<"S","o","u","r","c","e","s"," ","a","n","d"," ","U","s","e","s">>), NullCell>>
    [] kind = "body" -> <<lead, textCell(<<"L","a","n","d">>), numberCell(<<"1","0","0">>)>>
    [] kind = "subtotal" -> <<lead, textCell(<<"S","u","b","t","o","t","a","l">>), numberCell(<<"3","0","0">>)>>
    [] kind = "total" -> <<NullCell, textCell(<<"T","o","t","a","l"," ","U","s","e","s">>), numberCell(<<"5","0","0">>)>>
    [] kind = "other" -> <<NullCell, headerCell(<<"L","o","a","n"," ","t","o"," ","C","o","s","t">>), NullCell>>

ScenarioTails == {<<>>, <<"empty">>, <<"note">>, <<"empty", "other">>}
ScenarioAbove == {"empty", "note"}
ScenarioBody == {"body", "subtotal", "empty"}
ScenarioLeads == {NullCell, numberCell(<<"1">>)}

scenarioKinds(row5, row6, row15, row20, tail) ==
  [r \in 1..(26 + Len(tail)) |->
     IF r > 26 THEN tail[r - 26]
     ELSE IF r = 26 THEN "total"
     ELSE IF r = 20 THEN row20
     ELSE IF r = 15 THEN row15
     ELSE IF r > 7 THEN "body"
     ELSE IF r = 7 THEN "header"
     ELSE IF r = 6 THEN row6
     ELSE IF r = 5 THEN row5
     ELSE "empty"]

scenarioSheet(kinds, lead) ==
  [name |-> <<"S","&","U">>,
   rowCount |-> Len(kinds),
   columnCount |-> 3,
   cells |-> [r \in 1..Len(kinds) |-> scenarioRow(kinds[r], lead)],
   merges |-> {}]

ScenarioSheets ==
  {scenarioSheet(scenarioKinds(row5, row6, row15, row20, tail), lead) :
     row5 \in ScenarioAbove, row6 \in ScenarioAbove, row15 \in ScenarioBody,
     row20 \in ScenarioBody, tail \in ScenarioTails, lead \in ScenarioLeads}

InitScenario ==
  /\ bSheet \in ScenarioSheets
  /\ bHeader = [row |-> 7, col |-> 2]
  /\ bPadding = 1
  /\ bRegion = <<>>
  /\ workbook = <<>> /\ tableMappings = <<>> /\ call = <<>> /\ result = <<>>
  /\ firstResult = {} /\ calls = 0 /\ response = <<>>
  /\ revision = "none" /\ clock = 0 /\ fs = {} /\ req = <<>>

SpecScenario == InitScenario /\ [][NextBoundary]_vars

\* C14: in the scenario the detected range has startRow = 6 and endRow = 27.
C14_ScenarioRows ==
  bRegion # <<>> => bRegion[1].startRow = 6 /\ bRegion[1].endRow = 27

\* C14, with the clipping to the sheet: startRow = 6, and endRow = 27 when the
\* sheet has at least 27 rows, 26 when "Total Uses" is on its last row.
C14_ScenarioRowsClipped ==
  bRegion # <<>> =>
    /\ bRegion[1].startRow = 6
    /\ bRegion[1].actualBounds.topRow = 7
    /\ bRegion[1].actualBounds.bottomRow = 26
    /\ bRegion[1].endRow = IF bSheet.rowCount >= 27 THEN 27 ELSE 26

\* the scenario on a sheet that goes on below the total row, with plain text
\* right above the header and an empty row inside the body
C14_Witness ==
  /\ bRegion # <<>>
  /\ bSheet.rowCount = 28
  /\ getCellValue(getCell(bSheet, 6, 2)) # <<>>
  /\ getCellValue(getCell(bSheet, 15, 2)) = <<>>
  /\ bRegion[1].startRow = 6
  /\ bRegion[1].endRow = 27
(***************************************************************************)
(* Wide sheets for the column scans: row 1 holds the header cell "LTV",    *)
(* which is too short to be table data, and row 2 holds the number 100 in  *)
(* every live column.  The sheets vary in their width, in which columns    *)
(* are live and in the column of the header.                               *)
(***************************************************************************)
MaxCols == 9

columnsSheet(live, headerCol) ==
  [name |-> <<"S","&","U">>,
   rowCount |-> 2,
   columnCount |-> Len(live),
   cells |-> <<[c \in 1..Len(live) |->
                  IF c = headerCol THEN headerCell(<<"L","T","V">>) ELSE NullCell],
               [c \in 1..Len(live) |->
                  IF live[c] THEN numberCell(<<"1","0","0">>) ELSE NullCell]>>,
   merges |-> {}]

InitColumns ==
  /\ \E n \in 1..MaxCols : \E live \in [1..n -> BOOLEAN] : \E headerCol \in 1..n :
       /\ bSheet = columnsSheet(live, headerCol)
       /\ bHeader = [row |-> 1, col |-> headerCol]
  /\ bPadding = 0
  /\ bRegion = <<>>
  /\ workbook = <<>> /\ tableMappings = <<>> /\ call = <<>> /\ result = <<>>
  /\ firstResult = {} /\ calls = 0 /\ response = <<>>
  /\ revision = "none" /\ clock = 0 /\ fs = {} /\ req = <<>>

SpecColumns == InitColumns /\ [][NextBoundary]_vars

\* column c holds table data in the rows the column scans look at
liveCol(c) == colHasTableData(bSheet, bHeader.row, c)

\* a run of more than MaxConsecutiveEmptyCols non-live columns starts at c
longRunAt(c) ==
  /\ c + MaxConsecutiveEmptyCols <= bSheet.columnCount
  /\ \A k \in 0..MaxConsecutiveEmptyCols : ~liveCol(c + k)

\* C22: a live column beyond a run of more than K = 3 non-live columns is
\* never included: the right boundary is the last live column before the
\* first such run, whether or not an earlier gap was already crossed.
C22_StopsAtLongGap ==
  bRegion # <<>> =>
    \A c \in (bHeader.col + 1)..bSheet.columnCount :
      (/\ longRunAt(c)
       /\ liveCol(c - 1)
       /\ \A d \in bHeader.col..(c - 1) : ~longRunAt(d))
        => bRegion[1].actualBounds.rightCol = c - 1

\* C25: the leftward expansion stops at the first non-live column: no column
\* strictly between leftCol and the header column is non-live, also when the
\* header column itself holds no table data.
C25_NoGapLeftOfHeader ==
  bRegion # <<>> =>
    \A c \in (bRegion[1].actualBounds.leftCol + 1)..(bHeader.col - 1) :
      liveCol(c)
(***************************************************************************)
(* Sheets for the downward scan: the header "Sources and Uses" at A1 and,  *)
(* below it, rows of a two-sided table with labels in column A, nothing    *)
(* table-like in column B and amounts in column C.  The rows vary in where *)
(* the word "total" stands and in what their only content is.              *)
(***************************************************************************)
MaxBodyRows == 3

bodyRow(kind) ==
  CASE kind = "empty" -> <<NullCell, NullCell, NullCell>>
    [] kind = "body" -> <<textCell(<<"L","a","n","d">>), NullCell, numberCell(<<"1","0","0">>)>>
    [] kind = "total" -> <<textCell(<<"T","o","t","a","l"," ","U","s","e","s">>), NullCell, numberCell(<<"5","0","0">>)>>
    [] kind = "subtotal" -> <<textCell(<<"S","u","b","t","o","t","a","l">>), NullCell, numberCell(<<"3","0","0">>)>>
    [] kind = "totalRight" -> <<textCell(<<"L","a","n","d">>), NullCell, textCell(<<"T","o","t","a","l">>)>>
    [] kind = "mixed" -> <<textCell(<<"T","o","t","a","l"," ","U","s","e","s">>), NullCell, textCell(<<"S","u","b","t","o","t","a","l">>)>>
    [] kind = "note" -> <<NullCell, textCell(<<"n","/","a">>), NullCell>>
    [] kind = "zero" -> <<NullCell, NullCell, numberCell(<<"0">>)>>

BodyRowKinds ==
  {"empty", "body", "total", "subtotal", "totalRight", "mixed", "note", "zero"}

rowsSheet(kinds) ==
  [name |-> <<"S","&","U">>,
   rowCount |-> Len(kinds) + 1,
   columnCount |-> 3,
   cells |-> <<<<headerCell(<<"S","o","u","r","c","e","s"," ","a","n","d"," ","U","s","e","s">>), NullCell, NullCell>>>>
             \o [r \in 1..Len(kinds) |-> bodyRow(kinds[r])],
   merges |-> {}]

InitRows ==
  /\ \E n \in 1..MaxBodyRows : \E kinds \in [1..n -> BodyRowKinds] :
       bSheet = rowsSheet(kinds)
  /\ bHeader = [row |-> 1, col |-> 1]
  /\ bPadding = 0
  /\ bRegion = <<>>
  /\ workbook = <<>> /\ tableMappings = <<>> /\ call = <<>> /\ result = <<>>
  /\ firstResult = {} /\ calls = 0 /\ response = <<>>
  /\ revision = "none" /\ clock = 0 /\ fs = {} /\ req = <<>>

SpecRows == InitRows /\ [][NextBoundary]_vars

\* the text of the leading cell of row r, the cell in the leftmost column of
\* the region, contains "total" and not "subtotal"
leadTotal(r) ==
  LET lead == toLowerCase(getCellValue(
                getCell(bSheet, r, bRegion[1].actualBounds.leftCol)))
  IN includes(lead, <<"t","o","t","a","l">>) /\ ~includes(lead, <<"s","u","b","t","o","t","a","l">>)

\* C23: the downward expansion ends on a total row iff the leading cell of
\* that row contains "total" and not "subtotal", whatever the other cells
\* hold, and no row after such a row is included.
C23_TotalRowByLeadingCell ==
  bRegion # <<>> =>
    /\ bRegion[1].foundTotal => leadTotal(bRegion[1].actualBounds.bottomRow)
    /\ \A r \in (bHeader.row + 1)..bRegion[1].actualBounds.bottomRow :
         leadTotal(r) =>
           (bRegion[1].foundTotal /\ r = bRegion[1].actualBounds.bottomRow)

\* some cell of row r in columns leftCol..rightCol holds a value
rowHasContent(r) ==
  \E c \in bRegion[1].actualBounds.leftCol..bRegion[1].actualBounds.rightCol :
    bSheet.cells[r][c].kind # "null"

\* C24: a row counts as live iff some cell in columns leftCol..rightCol is
\* non-empty, a gap column and the number 0 included: rows with content
\* that follow the header without a break are inside the region.
C24_AnyContentIsLive ==
  bRegion # <<>> =>
    \A r \in (bHeader.row + 1)..bSheet.rowCount :
      (\A q \in (bHeader.row + 1)..r :
         rowHasContent(q) /\ (q < r => ~leadTotal(q)))
        => bRegion[1].actualBounds.bottomRow >= r
(***************************************************************************)
(* fuzzyMatch as a function of its two arguments.  The arguments are all   *)
(* strings of up to MaxLen characters over a small alphabet with a capital *)
(* letter, "&" and the space, and the names the service matches.           *)
(***************************************************************************)
MaxLen == 3

FuzzyAlphabet == {"A", "n", "d", "&", " "}

FuzzyStrings ==
  UNION {[1..n -> FuzzyAlphabet] : n \in 0..MaxLen}
  \cup {<<"S","&","U">>, <<"S","o","u","r","c","e","s"," ","&"," ","U","s","e","s">>, <<"s","o","u","r","c","e","s"," ","a","n","d"," ","u","s","e","s">>, <<"S","o","u","r","c","e","s"," "," ","a","n","d"," ","U","s","e","s"," ">>,
        <<"S","o","u","r","c","e"," ","&"," ","U","s","e">>, <<"L","T","C">>, <<"L","o","a","n"," ","t","o"," ","C","o","s","t">>}

InitFuzzy ==
  /\ call \in {<<[str1 |-> a, str2 |-> b]>> : a \in FuzzyStrings, b \in FuzzyStrings}
  /\ result = <<>>
  /\ workbook = <<>> /\ tableMappings = <<>> /\ firstResult = {} /\ calls = 0
  /\ response = <<>>
  /\ bSheet = <<>> /\ bHeader = <<>> /\ bPadding = 0 /\ bRegion = <<>>
  /\ revision = "none" /\ clock = 0 /\ fs = {} /\ req = <<>>

CallFuzzyMatch ==
  /\ result = <<>>
  /\ result' = <<fuzzyMatch(call[1].str1, call[1].str2)>>
  /\ UNCHANGED <<workbook, tableMappings, call, firstResult, calls, response>>
  /\ UNCHANGED boundaryVars
  /\ UNCHANGED renderVars

NextFuzzy == CallFuzzyMatch

SpecFuzzy == InitFuzzy /\ [][NextFuzzy]_vars

\* the reference score, written from its description
contains(s, sub) ==
  sub = <<>> \/ \E i \in 1..Len(s) : \E j \in i..Len(s) : SubSeq(s, i, j) = sub

\* every "&" read as "and"
withAnd(s) ==
  LET amps(i) == Cardinality({k \in 1..(i - 1) : s[k] = "&"})
      at(p) == CHOOSE i \in 1..Len(s) :
                 /\ i + 2 * amps(i) <= p
                 /\ p <= i + 2 * amps(i) + (IF s[i] = "&" THEN 2 ELSE 0)
  IN [p \in 1..(Len(s) + 2 * amps(Len(s) + 1)) |->
        IF s[at(p)] = "&" THEN <<"a","n","d">>[p - (at(p) + 2 * amps(at(p))) + 1]
        ELSE s[at(p)]]

\* every run of spaces read as one space
squeezed(s) ==
  LET keep == {i \in 1..Len(s) : ~(IsSpace(s[i]) /\ i > 1 /\ IsSpace(s[i - 1]))}
  IN [k \in 1..Cardinality(keep) |->
        s[CHOOSE i \in keep : Cardinality({j \in keep : j <= i}) = k]]

\* the edit distance by the textbook recurrence, a column of the table for
\* each prefix of a: col[j + 1] is the distance of that prefix and the first
\* j characters of b
RECURSIVE editColumn(_, _, _, _)
editColumn(prev, cur, ch, b) ==
  IF Len(cur) > Len(b) THEN cur
  ELSE editColumn(prev,
         Append(cur, Min3(cur[Len(cur)] + 1, prev[Len(cur) + 1] + 1,
                          prev[Len(cur)] + (IF ch = b[Len(cur)] THEN 0 ELSE 1))),
         ch, b)

RECURSIVE editColumns(_, _, _, _)
editColumns(col, i, a, b) ==
  IF i > Len(a) THEN col
  ELSE editColumns(editColumn(col, <<i>>, a[i], b), i + 1, a, b)

editDistance(a, b) ==
  editColumns([j \in 1..(Len(b) + 1) |-> j - 1], 1, a, b)[Len(b) + 1]

referenceScore(a, b) ==
  LET x == trim(toLowerCase(a))
      y == trim(toLowerCase(b))
      nx == squeezed(withAnd(x))
      ny == squeezed(withAnd(y))
  IN IF x = y THEN <<1, 1>>
     ELSE IF contains(x, y) \/ contains(y, x) THEN <<9, 10>>
     ELSE IF nx = ny THEN <<19, 20>>
     ELSE <<Max(Len(nx), Len(ny)) - editDistance(nx, ny), Max(Len(nx), Len(ny))>>

\* C27: fuzzyMatch(a, b) equals the reference score (1 if equal after
\* lower-casing and trimming, else 0.9 on containment, else 0.95 if equal
\* with "&" read as "and" and whitespace collapsed, else 1 - distance / max
\* length), lies in [0, 1], and is the same for (a, b) and (b, a).
C27_FuzzyMatchIsReferenceScore ==
  result # <<>> =>
    /\ ScoreEQ(result[1], referenceScore(call[1].str1, call[1].str2))
    /\ ScoreGE(result[1], <<0, 1>>) /\ ScoreGE(<<1, 1>>, result[1])
    /\ ScoreEQ(result[1], fuzzyMatch(call[1].str2, call[1].str1))

\* "S&U" against "Sources & Uses": neither equal nor contained, the score is
\* 1 - 11/16 on "sandu" and "sources and uses"
C27_Witness ==
  /\ result # <<>>
  /\ call[1].str1 = <<"S","&","U">>
  /\ call[1].str2 = <<"S","o","u","r","c","e","s"," ","&"," ","U","s","e","s">>
  /\ result[1] = <<5, 16>>
(***************************************************************************)
(* Sheets larger than the scan windows: header-like rows "Amount" above    *)
(* the header "Sources and Uses" in column A, then body rows with a label  *)
(* in column A and an amount in every other column, the last of them a     *)
(* body row or a "Total Uses" row.  The numbers of rows above, of body     *)
(* rows and of columns run from inside the windows to beyond them.         *)
(***************************************************************************)
MaxAbove == 4
MaxBeyond == 2

windowRow(kind, cols) ==
  [c \in 1..cols |->
     CASE kind = "above" -> IF c = 1 THEN headerCell(<<"A","m","o","u","n","t">>) ELSE NullCell
       [] kind = "header" -> IF c = 1 THEN headerCell(<<"S","o","u","r","c","e","s"," ","a","n","d"," ","U","s","e","s">>)
                             ELSE NullCell
       [] kind = "body" -> IF c = 1 THEN textCell(<<"L","a","n","d">>) ELSE numberCell(<<"1","0","0">>)
       [] kind = "total" -> IF c = 1 THEN textCell(<<"T","o","t","a","l"," ","U","s","e","s">>)
                            ELSE numberCell(<<"5","0","0">>)]

windowSheet(above, body, cols, last) ==
  [name |-> <<"S","&","U">>,
   rowCount |-> above + 1 + body,
   columnCount |-> cols,
   cells |-> [r \in 1..(above + 1 + body) |->
                windowRow(IF r <= above THEN "above"
                          ELSE IF r = above + 1 THEN "header"
                          ELSE IF r = above + 1 + body THEN last
                          ELSE "body", cols)],
   merges |-> {}]

InitWindow ==
  /\ \E above \in 0..MaxAbove :
       \E body \in (BottomRowWindow - 1)..(BottomRowWindow + MaxBeyond) :
         \E cols \in RightColWindow..(RightColWindow + 1 + MaxBeyond) :
           \E last \in {"body", "total"} :
             /\ bSheet = windowSheet(above, body, cols, last)
             /\ bHeader = [row |-> above + 1, col |-> 1]
  /\ bPadding \in {0, 1}
  /\ bRegion = <<>>
  /\ workbook = <<>> /\ tableMappings = <<>> /\ call = <<>> /\ result = <<>>
  /\ firstResult = {} /\ calls = 0 /\ response = <<>>
  /\ revision = "none" /\ clock = 0 /\ fs = {} /\ req = <<>>

SpecWindow == InitWindow /\ [][NextBoundary]_vars

\* C30: the detected bounds before padding stay inside a window around the
\* header: topRow >= headerRow - 3, bottomRow <= headerRow + 50 and
\* headerCol <= rightCol <= headerCol + 20; a table with more body rows or
\* more columns to the right of the header is cut at the window.
C30_BoundsInsideWindow ==
  bRegion # <<>> =>
    /\ bRegion[1].actualBounds.topRow >= bHeader.row - 3
    /\ bRegion[1].actualBounds.topRow <= bHeader.row
    /\ bRegion[1].actualBounds.bottomRow >= bHeader.row
    /\ bRegion[1].actualBounds.bottomRow <= bHeader.row + 50
    /\ bRegion[1].actualBounds.rightCol >= bHeader.col
    /\ bRegion[1].actualBounds.rightCol <= bHeader.col + 20
    /\ (\A r \in (bHeader.row + 1)..(bHeader.row + 51) :
          r <= bSheet.rowCount /\ scanLive(r) /\ ~scanTotal(r))
         => bRegion[1].actualBounds.bottomRow = bHeader.row + 50
    /\ (\A c \in (bHeader.col + 1)..(bHeader.col + 21) :
          c <= bSheet.columnCount /\ liveCol(c))
         => bRegion[1].actualBounds.rightCol = bHeader.col + 20

\* a table with 4 header-like rows above the header, 52 body rows and 22
\* columns to the right of the header, cut on all three sides
C30_Witness ==
  /\ bRegion # <<>>
  /\ bHeader.row = 5
  /\ bSheet.rowCount = 57
  /\ bSheet.columnCount = 23
  /\ scanLive(57) /\ liveCol(23)
  /\ rowHasHeaderContent(bSheet, 1, 1, 1, <<>>)
  /\ bRegion[1].actualBounds.topRow = 2
  /\ bRegion[1].actualBounds.bottomRow = 55
  /\ bRegion[1].actualBounds.rightCol = 21

(***************************************************************************)
(* Properties of detectTable and the 404 answer, under SpecDetect.         *)
(***************************************************************************)
\* the sheets of the workbook on which the last call ran the header search
scannedSheets ==
  {i \in 1..Len(workbook) :
     \E k \in 1..Len(result[1].scanned) : result[1].scanned[k] = workbook[i].name}

\* a non-empty cell that is bold or carries a likely table name
hasLikelyCell(ws) ==
  \E row \in 1..ws.rowCount, col \in 1..ws.columnCount :
    /\ getCellValue(getCell(ws, row, col)) # <<>>
    /\ isLikelyTable(getCell(ws, row, col), getCellValue(getCell(ws, row, col)))

\* such a cell inside the first 200 rows and 10 columns, with a text of more
\* than 3 characters
hasSuggestibleCell(ws) ==
  \E row \in 1..Min(SuggestionMaxRows, ws.rowCount),
     col \in 1..Min(SuggestionMaxCols, ws.columnCount) :
    /\ getCellValue(getCell(ws, row, col)) # <<>>
    /\ isLikelyTable(getCell(ws, row, col), getCellValue(getCell(ws, row, col)))
    /\ Len(getCellValue(getCell(ws, row, col))) > SuggestionMinLength

\* C8: when no candidate sheet list is supplied and some sheet of the
\* workbook holds a cell that findTableHeader accepts for the table name,
\* the result has found = true.
C8_FoundIfAnySheetHasHeader ==
  (/\ result # <<>>
   /\ call[1].searchSheets = <<>>
   /\ \E i \in 1..Len(workbook) :
        findTableHeader(workbook[i], call[1].tableName, tableMappings) # <<>>)
  => result[1].found

\* C9: when detection fails the answer is 404 with success false, its
\* searchedSheets is the sequence of sheets the header search ran on, and its
\* suggestions are non-empty whenever a searched sheet holds, inside its first
\* 200 rows and 10 columns, a bold or likely-header cell whose text is longer
\* than 3 characters.
C9_NotFoundAnswer ==
  (result # <<>> /\ ~result[1].found)
  => /\ response.status = 404
     /\ ~response.success
     /\ response.searchedSheets = result[1].scanned
     /\ (\E i \in scannedSheets : hasSuggestibleCell(workbook[i]))
          => response.suggestions # <<>>

C9_Witness ==
  /\ result # <<>>
  /\ ~result[1].found
  /\ response.status = 404
  /\ Len(response.searchedSheets) = 2
  /\ \E i \in scannedSheets : hasSuggestibleCell(workbook[i])
  /\ response.suggestions # <<>>

\* C9 as stated: on a failed detection the suggestions are non-empty whenever
\* a searched sheet holds any bold or likely-header cell text.
C9_SuggestionsForAnyLikelyCell ==
  (result # <<>> /\ ~result[1].found)
  => /\ response.status = 404
     /\ ~response.success
     /\ response.searchedSheets = result[1].scanned
     /\ (\E i \in scannedSheets : hasLikelyCell(workbook[i]))
          => response.suggestions # <<>>

\* C10: every call of detectTable yields the sheet, range, header cell and
\* confidence tier that the first call with the same table name, candidate
\* sheets and padding yielded on this workbook.
C10_SameAsFirstCall ==
  result # <<>>
  => \E p \in firstResult : p[1] = call[1] /\ p[2] = observed(result[1])

C10_Witness ==
  /\ calls = 2
  /\ Cardinality(firstResult) = 1
  /\ result[1].found
  /\ result[1].confidence = "exact"
  /\ tableMappings # TABLE_MAPPINGS

\* C11: after any sequence of detection requests the contents of
\* TABLE_MAPPINGS equal its initial contents.
C11_MappingsReadOnly == tableMappings = TABLE_MAPPINGS

\* the sheet of the workbook that carries the name
sheetNamed(name) == CHOOSE i \in 1..Len(workbook) : workbook[i].name = name

\* the sheet at place k of the search order of the last call
searchOrder(k) == workbook[sheetNamed(result[1].searchedSheets[k])]

\* C16: first match wins: on a found result the header search ran on the
\* sheets of the search order up to the reported sheet and on no later one,
\* no sheet before the reported one holds a match, and the reported sheet is
\* the one the search stopped at.
C16_FirstMatchWins ==
  (result # <<>> /\ result[1].found)
  => /\ Len(result[1].scanned) \in 1..Len(result[1].searchedSheets)
     /\ result[1].scanned =
          SubSeq(result[1].searchedSheets, 1, Len(result[1].scanned))
     /\ result[1].sheet = result[1].scanned[Len(result[1].scanned)]
     /\ findTableHeader(searchOrder(Len(result[1].scanned)),
                        call[1].tableName, tableMappings) # <<>>
     /\ \A k \in 1..(Len(result[1].scanned) - 1) :
          findTableHeader(searchOrder(k), call[1].tableName, tableMappings) = <<>>

\* two sheets of the search order hold a match, the first is reported and the
\* second, which comes first in the workbook, was not examined
C16_Witness ==
  /\ result # <<>>
  /\ result[1].found
  /\ Len(result[1].searchedSheets) = 2
  /\ Len(result[1].scanned) = 1
  /\ result[1].sheet = workbook[2].name
  /\ findTableHeader(searchOrder(2), call[1].tableName, tableMappings) # <<>>

\* the places of the candidate list of the last call whose name resolves to
\* a sheet of the workbook
resolvedPlaces ==
  {i \in 1..Len(call[1].searchSheets) :
     findSheet(workbook, <<call[1].searchSheets[i]>>) # 0}

\* the k-th resolved place, in the order of the list
resolvedPlace(k) ==
  CHOOSE i \in resolvedPlaces :
    Cardinality({j \in resolvedPlaces : j <= i}) = k

\* C29: with a candidate list the sheets searched are the sheets its names
\* resolve to, in the order given, unresolved names dropped; when no name
\* resolves no sheet is searched and the result is not-found with empty
\* searchedSheets and empty suggestions.
C29_OnlyResolvedCandidates ==
  (result # <<>> /\ call[1].searchSheets # <<>>)
  => /\ Len(result[1].searchedSheets) = Cardinality(resolvedPlaces)
     /\ \A k \in 1..Len(result[1].searchedSheets) :
          result[1].searchedSheets[k] =
            workbook[findSheet(workbook,
                               <<call[1].searchSheets[resolvedPlace(k)]>>)].name
     /\ result[1].scanned =
          SubSeq(result[1].searchedSheets, 1, Len(result[1].scanned))
     /\ ~result[1].found => result[1].scanned = result[1].searchedSheets
     /\ resolvedPlaces = {}
          => /\ ~result[1].found
             /\ result[1].searchedSheets = <<>>
             /\ result[1].scanned = <<>>
             /\ result[1].suggestions = <<>>
             /\ response.status = 404

\* a list of three names of which none resolves, on a workbook whose sheet
\* holds the header asked for: nothing is searched
C29_Witness ==
  /\ result # <<>>
  /\ Len(call[1].searchSheets) = 3
  /\ resolvedPlaces = {}
  /\ findTableHeader(workbook[1], call[1].tableName, tableMappings) # <<>>
  /\ ~result[1].found
  /\ result[1].searchedSheets = <<>>
  /\ result[1].suggestions = <<>>

(***************************************************************************)
(* findSheet on its own: a workbook of named sheets and one call.  The     *)
(* call leaves the sheet returned (0 is null) and, beside it, the score    *)
(* computed for every sheet and target name.                               *)
(***************************************************************************)
MaxResolverSheets == 3

ResolverSheetNames ==
  { <<"S","&","U">>, <<"S","&","U"," ","2">>, <<"S","&","U"," ","3">>, <<"S","o","u","r","c","e","s"," ","&"," ","U","s","e","s">>, <<"S","u","m","m","a","r","y">>,
    <<"L","T","C"," ","a","n","d"," ","L","T","V"," ","C","a","l","c","s">> }

ResolverWorkbooks ==
  {wb \in UNION {[1..n -> {sheetOfRows(name, <<"body">>) : name \in ResolverSheetNames}] :
                   n \in 1..MaxResolverSheets} :
     \A i, j \in 1..Len(wb) : i # j => wb[i].name # wb[j].name}

ResolverTargets ==
  { << <<"S","o","u","r","c","e","s"," ","&"," ","U","s","e","s">> >>,
    << <<"s","&","u">>, <<"s","o","u","r","c","e","s"," ","a","n","d"," ","u","s","e","s">>, <<"s","u">>, <<"s"," ","&"," ","u">> >>,
    << <<"l","t","c"," ","a","n","d"," ","l","t","v"," ","c","a","l","c","s">>, <<"l","t","c"," ","l","t","v">>, <<"l","t","v"," ","l","t","c">> >>,
    << <<"S","u","m","m","a","r","y">> >>,
    << <<"N","o","p","e">> >> }

InitSheet ==
  /\ workbook \in ResolverWorkbooks
  /\ call = <<>> /\ result = <<>> /\ calls = 0
  /\ tableMappings = <<>> /\ firstResult = {} /\ response = <<>>
  /\ bSheet = <<>> /\ bHeader = <<>> /\ bPadding = 0 /\ bRegion = <<>>
  /\ revision = "none" /\ clock = 0 /\ fs = {} /\ req = <<>>

CallFindSheet(targetNames) ==
  /\ calls = 0
  /\ call' = <<targetNames>>
  /\ result' = <<[sheet |-> findSheet(workbook, targetNames),
                  scores |-> [s \in 1..Len(workbook) |->
                                [t \in 1..Len(targetNames) |->
                                   sheetScore(workbook[s].name, targetNames[t])]]]>>
  /\ calls' = 1
  /\ UNCHANGED <<workbook, tableMappings, firstResult, response>>
  /\ UNCHANGED boundaryVars
  /\ UNCHANGED renderVars

NextSheet == \E targetNames \in ResolverTargets : CallFindSheet(targetNames)

SpecSheet == InitSheet /\ [][NextSheet]_vars

\* the best score of sheet s over the target names of the call
isTopScore(scores, s, t) ==
  \A s2 \in 1..Len(scores) : \A t2 \in 1..Len(scores[s2]) :
    ScoreGE(scores[s][t], scores[s2][t2])

\* C13: the score computed for a sheet named "S&U" against the query
\* "Sources & Uses" is at least 0.85, and findSheet resolves a sheet.
C13_SUResolvedForSourcesAndUses ==
  (result # <<>> /\ call[1] = << <<"S","o","u","r","c","e","s"," ","&"," ","U","s","e","s">> >>)
  => \A s \in 1..Len(workbook) :
       workbook[s].name = <<"S","&","U">>
       => /\ ScoreGE(result[1].scores[s][1], SubstringBoost)
          /\ result[1].sheet # 0

MaxHeaderRows == 2

HeaderShapeNames ==
  {"empty", "header", "merged", "body", "other", "variant", "short", "near",
   "typo", "spaced", "pair"}

\* a sheet that is empty but for one header cell in its last row and column
cornerSheet(rows, cols, text) ==
  [name |-> <<"S","&","U">>,
   rowCount |-> rows,
   columnCount |-> cols,
   cells |-> [r \in 1..rows |-> [c \in 1..cols |->
                IF r = rows /\ c = cols THEN headerCell(text) ELSE NullCell]],
   merges |-> {}]

HeaderSheets ==
  {sheetOfRows(<<"S","&","U">>, shapes) :
     shapes \in UNION {[1..n -> HeaderShapeNames] : n \in 1..MaxHeaderRows}}
  \cup {cornerSheet(1, HeaderMaxCols, <<"L","o","a","n"," ","t","o"," ","C","o","s","t">>),
        cornerSheet(1, HeaderMaxCols + 1, <<"L","o","a","n"," ","t","o"," ","C","o","s","t">>),
        cornerSheet(HeaderMaxRows, 1, <<"S","o","u","r","c","e","s"," ","a","n","d"," ","U","s","e","s">>),
        cornerSheet(HeaderMaxRows + 1, 1, <<"S","o","u","r","c","e","s"," ","a","n","d"," ","U","s","e","s">>)}

HeaderTableNames == { <<"S","o","u","r","c","e","s"," ","a","n","d"," ","U","s","e","s">>, <<"L","o","a","n"," ","t","o"," ","C","o","s","t">>, <<"L","a","n","d">> }

\* the best score of a text over the variations, 0 for an empty text
RECURSIVE variationScore(_, _, _, _)
variationScore(cellValue, variations, i, best) ==
  IF cellValue = <<>> \/ i > Len(variations) THEN best
  ELSE IF ScoreGT(fuzzyMatch(cellValue, variations[i]), best)
       THEN variationScore(cellValue, variations, i + 1,
                           fuzzyMatch(cellValue, variations[i]))
       ELSE variationScore(cellValue, variations, i + 1, best)

cellScores(ws, variations) ==
  [r \in 1..ws.rowCount |-> [c \in 1..ws.columnCount |->
     variationScore(getCellValue(getCell(ws, r, c)), variations, 1, <<0, 1>>)]]

InitHeader ==
  /\ bSheet \in HeaderSheets
  /\ tableMappings = TABLE_MAPPINGS
  /\ bHeader = <<>> /\ bPadding = 0 /\ bRegion = <<>>
  /\ workbook = <<>> /\ call = <<>> /\ result = <<>>
  /\ firstResult = {} /\ calls = 0 /\ response = <<>>
  /\ revision = "none" /\ clock = 0 /\ fs = {} /\ req = <<>>

CallFindTableHeader(tableName) ==
  /\ calls = 0
  /\ call' = <<tableName>>
  /\ result' = <<[match |-> findTableHeader(bSheet, tableName, tableMappings),
                  scores |-> cellScores(bSheet,
                               headerVariations(tableMappings, tableName))]>>
  /\ tableMappings' = mappingsAfterHeaderSearch(tableMappings, tableName)
  /\ calls' = 1
  /\ UNCHANGED <<bSheet, bHeader, bPadding, bRegion>>
  /\ UNCHANGED <<workbook, firstResult, response>>
  /\ UNCHANGED renderVars

NextHeader == \E tableName \in HeaderTableNames : CallFindTableHeader(tableName)

SpecHeader == InitHeader /\ [][NextHeader]_vars

\* the non-empty master cells inside the scan window
windowCells ==
  {rc \in (1..Min(HeaderMaxRows, bSheet.rowCount))
            \X (1..Min(HeaderMaxCols, bSheet.columnCount)) :
     /\ isScanned(getCell(bSheet, rc[1], rc[2]))
     /\ getCellValue(getCell(bSheet, rc[1], rc[2])) # <<>>}

\* the cells of the window that score above 0.7
matchingCells ==
  {rc \in windowCells : ScoreGT(result[1].scores[rc[1]][rc[2]], HeaderThreshold)}

rowMajorBefore(a, b) == a[1] < b[1] \/ (a[1] = b[1] /\ a[2] < b[2])

\* C18: findTableHeader returns no match iff no non-empty master cell of the
\* scan window scores above 0.7 against a variant; otherwise it returns a
\* cell of maximum score, the earliest in row-major order among equal scores,
\* with confidence 'exact' iff the score is at least 0.95, else 'fuzzy'.
C18_BestHeaderCell ==
  result # <<>> =>
    /\ (result[1].match = <<>>) <=> (matchingCells = {})
    /\ result[1].match # <<>> =>
         /\ <<result[1].match[1].row, result[1].match[1].col>> \in matchingCells
         /\ result[1].match[1].score =
              result[1].scores[result[1].match[1].row][result[1].match[1].col]
         /\ \A rc \in matchingCells :
              /\ ScoreGE(result[1].match[1].score, result[1].scores[rc[1]][rc[2]])
              /\ ScoreEQ(result[1].match[1].score, result[1].scores[rc[1]][rc[2]])
                   => ~rowMajorBefore(rc, <<result[1].match[1].row,
                                            result[1].match[1].col>>)
         /\ (result[1].match[1].confidence = "exact")
              <=> ScoreGE(result[1].match[1].score, ExactThreshold)
         /\ result[1].match[1].confidence \in {"exact", "fuzzy"}

\* a fuzzy match returned although a later cell scores the same, on a sheet
\* that also holds a cell of lower score above the threshold
C18_Witness ==
  /\ result # <<>>
  /\ result[1].match # <<>>
  /\ result[1].match[1].confidence = "fuzzy"
  /\ \E rc \in matchingCells :
       /\ rowMajorBefore(<<result[1].match[1].row, result[1].match[1].col>>, rc)
       /\ ScoreEQ(result[1].match[1].score, result[1].scores[rc[1]][rc[2]])
  /\ \E rc \in matchingCells :
       ScoreGT(result[1].match[1].score, result[1].scores[rc[1]][rc[2]])

(***************************************************************************)
(* The request handlers POST /convert and POST /detect-and-capture from    *)
(* the request body to the answer: parameter presence, base64 pattern,     *)
(* decoding, ZIP signature, workbook load, sheet lookup, range pattern,    *)
(* detection, and the call of renderExcelRange.  workbook is what the      *)
(* uploaded archive holds; <<>> stands for an archive that ExcelJS cannot  *)
(* load.  Whether renderExcelRange returns an image or throws is open.     *)
(***************************************************************************)
Base64Alphabet ==
  <<"A","B","C","D","E","F","G","H","I","J","K","L","M","N","O","P","Q","R","S","T","U","V","W","X","Y","Z","a","b","c","d","e","f","g","h","i","j","k","l","m","n","o","p","q","r","s","t","u","v","w","x","y","z","0","1","2","3","4","5","6","7","8","9","+","/">>

IsBase64Char(c) == \E i \in 1..Len(Base64Alphabet) : Base64Alphabet[i] = c

\* the value of a base64 character
sextet(c) == (CHOOSE i \in 1..Len(Base64Alphabet) : Base64Alphabet[i] = c) - 1

\* the number of trailing "=" of s
RECURSIVE trailingPads(_)
trailingPads(s) ==
  IF s # <<>> /\ s[Len(s)] = "=" THEN 1 + trailingPads(SubSeq(s, 1, Len(s) - 1))
  ELSE 0

\* /^[A-Za-z0-9+/]*={0,2}$/ on the whole of s
base64Whole(s) ==
  /\ trailingPads(s) <= 2
  /\ \A i \in 1..(Len(s) - trailingPads(s)) : IsBase64Char(s[i])

\* base64Pattern.test(s): $ also matches before a final line terminator
base64PatternTest(s) ==
  \/ base64Whole(s)
  \/ s # <<>> /\ s[Len(s)] = "\n" /\ base64Whole(SubSeq(s, 1, Len(s) - 1))

\* byte k (from 0) of the bit string made of the 6-bit values
byteAt(sextets, k) ==
  LET i == (8 * k) \div 6 + 1
      off == (8 * k) % 6
  IN IF off = 0 THEN sextets[i] * 4 + sextets[i + 1] \div 16
     ELSE IF off = 2 THEN (sextets[i] % 16) * 16 + sextets[i + 1] \div 4
     ELSE (sextets[i] % 4) * 64 + sextets[i + 1]

\* Buffer.from(s, 'base64'): characters outside the alphabet are passed over
bufferFrom(s) ==
  LET chars == SelectSeq(s, IsBase64Char)
      sextets == [i \in 1..Len(chars) |-> sextet(chars[i])]
  IN [k \in 1..((6 * Len(chars)) \div 8) |-> byteAt(sextets, k - 1)]

\* the bytes of 0x04034b50 read little-endian: "PK\x03\x04"
ZipSignature == <<80, 75, 3, 4>>

\* buffer.length < 4 || buffer.readUInt32LE(0) !== 0x04034b50
badSignature(buffer) ==
  Len(buffer) < 4 \/ SubSeq(buffer, 1, 4) # ZipSignature

\* the end of the run of capital letters / of digits that starts at i
RECURSIVE upperRunEnd(_, _)
upperRunEnd(s, i) ==
  IF i <= Len(s) /\ IsUpper(s[i]) THEN upperRunEnd(s, i + 1) ELSE i
RECURSIVE digitRunEnd(_, _)
digitRunEnd(s, i) ==
  IF i <= Len(s) /\ IsDigit(s[i]) THEN digitRunEnd(s, i + 1) ELSE i

\* where a match of ([A-Z]+)(\d+):([A-Z]+)(\d+) that starts at i ends (one
\* past its last character), 0 when there is none
rangeMatchEnd(s, i) ==
  LET b == upperRunEnd(s, i)
      c == digitRunEnd(s, b)
      d == upperRunEnd(s, c + 1)
      e == digitRunEnd(s, d)
  IN IF b > i /\ c > b /\ c <= Len(s) /\ s[c] = ":" /\ d > c + 1 /\ e > d
     THEN e ELSE 0

\* range.match(/([A-Z]+)(\d+):([A-Z]+)(\d+)/): a match anywhere in the text
rangeMatch(range) == \E i \in 1..Len(range) : rangeMatchEnd(range, i) # 0

\* the range is of the form "A1:H30" from its first to its last character
wellFormedRange(range) == rangeMatchEnd(range, 1) = Len(range) + 1

\* lines 301-315: the last sheet of that name, else the last sheet whose name
\* contains it, compared in lower case; 0 for none
lastSheet(wb, P(_)) ==
  IF \E s \in 1..Len(wb) : P(s)
  THEN CHOOSE s \in 1..Len(wb) : P(s) /\ \A t \in (s + 1)..Len(wb) : ~P(t)
  ELSE 0

findWorksheet(wb, sheetName) ==
  LET same(s) == toLowerCase(wb[s].name) = toLowerCase(sheetName)
      partial(s) == includes(toLowerCase(wb[s].name), toLowerCase(sheetName))
  IN IF lastSheet(wb, same) # 0 THEN lastSheet(wb, same)
     ELSE lastSheet(wb, partial)

ValidateWorkbooks ==
  { <<>>,
    << sheetOfRows(<<"S","&","U">>, <<"header", "body">>) >>,
    << sheetOfRows(<<"S","u","m","m","a","r","y">>, <<"variant", "body">>),
       sheetOfRows(<<"S","&","U">>, <<"short", "body">>) >> }

Payloads ==
  { <<>>, <<"U","E","s","D","B","B","Q","A">>, <<"U","E","s","D","B","A","=","=">>, <<"U","E","s","D","B","B","Q","A">> \o <<"\n">>, <<"U","E","s","D">>,
    <<"S","G","V","s","b","G","8","h">>, <<"0","M","8","R","4","K","G","x">>, <<"U","E","s","D"," ","B","B","Q","A">>, <<"U","E","s","D","B","B","Q","A","=","=","=">>, <<"U","E","s","=","D","B","B","Q">>,
    <<"U","E","s","D","B","B","Q","!">> }
ConvertSheetNames == { <<>>, <<"S","&","U">>, <<"s","&","u">>, <<"S","u","m","m">>, <<"N","o","p","e">> }
ConvertRanges ==
  { <<>>, <<"A","1",":","H","3","0">>, <<"A","B","6",":","A","D","2","7">>, <<"a","1",":","h","3","0">>, <<"A","1">>, <<"A",":","B">>, <<"A","1",":","B">>,
    <<"A","1",":","B","2","x">>, <<"x","A","1",":","B","2">>, <<"A","1",":","B","2",":","C","3">>, <<"S","&","U","!","A","1",":","B","2">>, <<"C","9",":","A","1">>, <<"B","2",":","B","1","0">> }

answer(status, error, rendered) ==
  [status |-> status, error |-> error, rendered |-> rendered,
   image |-> status = 200]

\* lines 268-294 and 362-388: the answer to an unusable payload, <<>> for a
\* payload that goes on to the workbook load
payloadAnswer(excelBase64) ==
  IF ~base64PatternTest(excelBase64)
  THEN <<answer(400, "Invalid excelBase64 format", FALSE)>>
  ELSE IF badSignature(bufferFrom(excelBase64))
       THEN <<answer(400, "Invalid Excel file", FALSE)>>
       ELSE <<>>

\* the answers after renderExcelRange was called: the image, or the catch
rendering(failure) ==
  {answer(200, "", TRUE), answer(500, failure, TRUE)}

\* POST /convert, lines 260-349
convertAnswers(wb, excelBase64, sheetName, range) ==
  IF excelBase64 = <<>> \/ sheetName = <<>> \/ range = <<>>
  THEN {answer(400, "Missing required parameters", FALSE)}
  ELSE IF payloadAnswer(excelBase64) # <<>>
  THEN {payloadAnswer(excelBase64)[1]}
  ELSE IF wb = <<>>
  THEN {answer(500, "Failed to generate screenshot", FALSE)}
  ELSE IF findWorksheet(wb, sheetName) = 0
  THEN {answer(400, "Sheet not found in workbook", FALSE)}
  ELSE IF ~rangeMatch(range)
  THEN {answer(400, "Invalid range format", FALSE)}
  ELSE rendering("Failed to generate screenshot")

\* POST /detect-and-capture, lines 352-435, up to the detection
detectAnswers(wb, excelBase64, tableName, d) ==
  IF excelBase64 = <<>> \/ tableName = <<>>
  THEN {answer(400, "Missing required parameters", FALSE)}
  ELSE IF payloadAnswer(excelBase64) # <<>>
  THEN {payloadAnswer(excelBase64)[1]}
  ELSE IF wb = <<>>
  THEN {answer(500, "Failed to detect and capture table", FALSE)}
  ELSE IF ~d.found
  THEN {answer(404, "Table not found", FALSE)}
  ELSE rendering("Failed to detect and capture table")

\* detectTable runs only on a loaded workbook
reachesDetection(wb, excelBase64, tableName) ==
  /\ excelBase64 # <<>> /\ tableName # <<>>
  /\ payloadAnswer(excelBase64) = <<>>
  /\ wb # <<>>

InitValidate ==
  /\ workbook \in ValidateWorkbooks
  /\ tableMappings = TABLE_MAPPINGS
  /\ call = <<>> /\ result = <<>> /\ firstResult = {} /\ calls = 0
  /\ response = <<>>
  /\ bSheet = <<>> /\ bHeader = <<>> /\ bPadding = 0 /\ bRegion = <<>>
  /\ revision = "none" /\ clock = 0 /\ fs = {} /\ req = <<>>

Convert(excelBase64, sheetName, range) ==
  /\ calls = 0
  /\ call' = <<[endpoint |-> "/convert", excelBase64 |-> excelBase64,
                sheetName |-> sheetName, range |-> range, tableName |-> <<>>]>>
  /\ \E a \in convertAnswers(workbook, excelBase64, sheetName, range) :
       response' = <<a>>
  /\ calls' = 1
  /\ UNCHANGED <<workbook, tableMappings, result, firstResult>>
  /\ UNCHANGED boundaryVars
  /\ UNCHANGED renderVars

DetectAndCaptureRequest(excelBase64, tableName) ==
  /\ calls = 0
  /\ call' = <<[endpoint |-> "/detect-and-capture", excelBase64 |-> excelBase64,
                sheetName |-> <<>>, range |-> <<>>, tableName |-> tableName]>>
  /\ result' = IF reachesDetection(workbook, excelBase64, tableName)
               THEN <<detectTable(workbook, tableName, <<>>, 2, tableMappings)>>
               ELSE <<>>
  /\ tableMappings' = IF result' # <<>> THEN result'[1].mappings ELSE tableMappings
  /\ \E a \in detectAnswers(workbook, excelBase64, tableName,
                            IF result' # <<>> THEN result'[1] ELSE [found |-> FALSE]) :
       response' = <<a>>
  /\ calls' = 1
  /\ UNCHANGED <<workbook, firstResult>>
  /\ UNCHANGED boundaryVars
  /\ UNCHANGED renderVars

NextValidate ==
  \/ \E excelBase64 \in Payloads, sheetName \in ConvertSheetNames,
        range \in ConvertRanges :
       Convert(excelBase64, sheetName, range)
  \/ \E excelBase64 \in Payloads, tableName \in DetectTableNames \cup {<<>>} :
       DetectAndCaptureRequest(excelBase64, tableName)

SpecValidate == InitValidate /\ [][NextValidate]_vars

\* the request's payload fails the base64 pattern or the ZIP signature test
payloadRejected ==
  /\ call[1].excelBase64 # <<>>
  /\ \/ ~base64PatternTest(call[1].excelBase64)
     \/ badSignature(bufferFrom(call[1].excelBase64))

\* C15: the render pipeline is never invoked for a request whose payload
\* fails base64 or ZIP-header validation, whose explicit range is malformed,
\* or whose detection ends not-found; each gets a structured 400/404 error.
C15_RejectedBeforeRendering ==
  (/\ call # <<>>
   /\ \/ payloadRejected
      \/ call[1].endpoint = "/convert" /\ call[1].range # <<>>
           /\ ~wellFormedRange(call[1].range)
      \/ result # <<>> /\ ~result[1].found)
  => /\ ~response[1].rendered
     /\ response[1].status \in {400, 404}
     /\ response[1].error # ""

\* columnToNumber(column): the letters read as a number in base 26
RECURSIVE columnToNumber(_)
columnToNumber(column) ==
  IF column = <<>> THEN 0
  ELSE columnToNumber(SubSeq(column, 1, Len(column) - 1)) * 26
       + (CHOOSE i \in 1..Len(UpperChars) : UpperChars[i] = column[Len(column)])

\* parseInt(digits)
RECURSIVE parseInt(_)
parseInt(digits) ==
  IF digits = <<>> THEN 0
  ELSE parseInt(SubSeq(digits, 1, Len(digits) - 1)) * 10
       + (CHOOSE d \in 0..9 : <<"0","1","2","3","4","5","6","7","8","9">>[d + 1] = digits[Len(digits)])

\* the groups of the first match of ([A-Z]+)(\d+):([A-Z]+)(\d+) in range
rangeGroups(range) ==
  LET i == CHOOSE k \in 1..Len(range) :
             /\ rangeMatchEnd(range, k) # 0
             /\ \A j \in 1..(k - 1) : rangeMatchEnd(range, j) = 0
      b == upperRunEnd(range, i)
      c == digitRunEnd(range, b)
      d == upperRunEnd(range, c + 1)
      e == digitRunEnd(range, d)
  IN [startCol |-> columnToNumber(SubSeq(range, i, b - 1)),
      startRow |-> parseInt(SubSeq(range, b, c - 1)),
      endCol |-> columnToNumber(SubSeq(range, c + 1, d - 1)),
      endRow |-> parseInt(SubSeq(range, d, e - 1))]

\* createRangeOnlyExcel on a sheet that was found: the error it throws, or
\* the source cells its loops copy before the file is written and converted
createRangeOnlyExcel(range) ==
  IF ~rangeMatch(range)
  THEN [error |-> "Invalid range format", copied |-> {}, converted |-> FALSE]
  ELSE [error |-> "",
        copied |-> (rangeGroups(range).startRow..rangeGroups(range).endRow)
                   \X (rangeGroups(range).startCol..rangeGroups(range).endCol),
        converted |-> TRUE]

\* range is "A1:B2" from end to end, with start row and column not beyond
\* its end row and column
wellFormedRectangle(range) ==
  /\ wellFormedRange(range)
  /\ rangeGroups(range).startRow <= rangeGroups(range).endRow
  /\ rangeGroups(range).startCol <= rangeGroups(range).endCol

\* C26: the renderer is only asked for well-formed rectangles: a /convert
\* request whose range runs backwards or carries extra characters is
\* answered with an error and reaches neither cell copying nor conversion.
C26_OnlyWellFormedRectangles ==
  (/\ call # <<>>
   /\ call[1].endpoint = "/convert"
   /\ call[1].range # <<>>
   /\ ~wellFormedRectangle(call[1].range))
  => /\ response[1].error # ""
     /\ response[1].rendered => ~createRangeOnlyExcel(call[1].range).converted

(***************************************************************************)
(* excelVisualRenderer.js: renderExcelRange and the answer of the server.  *)
(* The file holds four revisions of the renderer; one is in service.  A    *)
(* request runs from one await to the next in one step; the outcome of a   *)
(* subprocess (exit 0 with its output written, exit non-zero, no exit) is  *)
(* open.  fs is the content of /tmp/excel-renderer, Date.now() is clock.   *)
(***************************************************************************)
MaxRequests == 2
MaxClock == 1

Requests == 1..MaxRequests
Revisions == {"python", "range", "crop", "fullpage"}

\* execAsync(cmd, { timeout }) and the setTimeout of callPythonExtractor
hasTimeouts(rev) == rev \in {"python", "crop", "fullpage"}

inputFile(timestamp) == <<"input_", timestamp, ".xlsx">>
pdfFile(timestamp) == <<"output_", timestamp, ".pdf">>
croppedFile(timestamp) == <<"cropped_", timestamp, ".png">>
rangeExcelFile(timestamp) == <<"range_", timestamp, ".xlsx">>

pngFile(rev, timestamp) ==
  IF rev = "range" THEN <<"output_", timestamp, ".png">>
  ELSE IF rev = "crop" THEN <<"page_", timestamp, ".png">>
  ELSE <<"page_", timestamp, "-1.png">>

\* `${outputDir}/${baseName}.png`, the file pdftoppm -singlefile writes
popplerOutput(rev, timestamp) ==
  IF rev = "range" THEN <<"output_", timestamp, ".png">>
  ELSE <<"page_", timestamp, ".png">>

\* the PDF LibreOffice writes beside its input
generatedPdf(rev, timestamp) ==
  IF rev = "range" THEN <<"range_", timestamp, ".pdf">>
  ELSE <<"input_", timestamp, ".pdf">>

finalFile(rev, timestamp) ==
  IF rev = "crop" THEN croppedFile(timestamp) ELSE pngFile(rev, timestamp)

\* the list handed to this.cleanup
cleanupList(rev, timestamp) ==
  IF rev = "range"
  THEN {inputFile(timestamp), pdfFile(timestamp), pngFile(rev, timestamp)}
  ELSE {inputFile(timestamp), pdfFile(timestamp), pngFile(rev, timestamp),
        croppedFile(timestamp)}

\* cleanup(files): existsSync, then unlinkSync
cleanup(files, list) == files \ list

\* the finally of convertExcelToPDF in the range revision
unlinkRangeExcel(rev, files, timestamp) ==
  IF rev = "range" THEN files \ {rangeExcelFile(timestamp)} ELSE files

idleRequest ==
  [pc |-> "idle", ts |-> 0, created |-> {}, timer |-> FALSE,
   killed |-> FALSE, closed |-> FALSE, backend |-> "none",
   status |-> 0, image |-> FALSE, method |-> "none"]

InitRender ==
  /\ revision \in Revisions
  /\ clock = 0
  /\ fs = {}
  /\ req = [r \in Requests |-> idleRequest]
  /\ bSheet = <<>> /\ bHeader = <<>> /\ bPadding = 0 /\ bRegion = <<>>
  /\ workbook = <<>> /\ tableMappings = <<>>
  /\ call = <<>> /\ result = <<>> /\ firstResult = {} /\ calls = 0
  /\ response = <<>>

\* renderExcelRange throws: cleanup in its catch, then the 500 of the server
Throws(r, files) ==
  /\ fs' = cleanup(files, cleanupList(revision, req[r].ts))
  /\ req' = [req EXCEPT ![r] = [@ EXCEPT !.pc = "done", !.timer = FALSE,
                                         !.status = 500, !.image = FALSE,
                                         !.method = "none"]]

\* fs.readFileSync(finalFile), cleanup, return; then res.json of the server
Returns(r, files, written, backend) ==
  IF finalFile(revision, req[r].ts) \in files
  THEN /\ fs' = cleanup(files, cleanupList(revision, req[r].ts))
       /\ req' = [req EXCEPT ![r] = [@ EXCEPT !.pc = "done", !.timer = FALSE,
                                              !.created = @ \cup written,
                                              !.backend = backend,
                                              !.status = 200, !.image = TRUE,
                                              !.method = METHOD]]
  ELSE /\ fs' = cleanup(files, cleanupList(revision, req[r].ts))
       /\ req' = [req EXCEPT ![r] = [@ EXCEPT !.pc = "done", !.timer = FALSE,
                                              !.created = @ \cup written,
                                              !.backend = backend,
                                              !.status = 500, !.image = FALSE,
                                              !.method = "none"]]

\* the request goes on to await the next step
Awaits(r, files, written, pc, backend) ==
  /\ fs' = files
  /\ req' = [req EXCEPT ![r] = [@ EXCEPT !.pc = pc,
                                         !.timer = hasTimeouts(revision) /\ pc # "crop",
                                         !.created = @ \cup written,
                                         !.backend = backend]]

Tick ==
  /\ clock < MaxClock
  /\ clock' = clock + 1
  /\ UNCHANGED <<revision, fs, req>>

\* renderExcelRange up to its first await on a conversion
Start(r) ==
  /\ req[r].pc = "idle"
  /\ IF revision = "python"
     THEN /\ fs' = fs
          /\ req' = [req EXCEPT ![r] = [@ EXCEPT !.pc = "python", !.ts = clock,
                                                 !.timer = TRUE]]
     ELSE /\ fs' = fs \cup {inputFile(clock)}
          /\ req' = [req EXCEPT ![r] =
                       [@ EXCEPT !.pc = IF revision = "range"
                                        THEN "rangeExcel" ELSE "pdf",
                                 !.ts = clock,
                                 !.timer = hasTimeouts(revision),
                                 !.created = {inputFile(clock)}]]
  /\ UNCHANGED <<revision, clock>>

\* range revision: createRangeOnlyExcel reads the input and writes the
\* range-only workbook (named from a Date.now() of the same run), then
\* LibreOffice is started without a timeout
RangeExcelWritten(r) ==
  /\ req[r].pc = "rangeExcel"
  /\ IF inputFile(req[r].ts) \in fs
     THEN Awaits(r, fs \cup {rangeExcelFile(req[r].ts)},
                 {rangeExcelFile(req[r].ts)}, "pdf", "none")
     ELSE Throws(r, fs)
  /\ UNCHANGED <<revision, clock>>

RangeExcelFails(r) ==
  /\ req[r].pc = "rangeExcel"
  /\ Throws(r, unlinkRangeExcel(revision, fs, req[r].ts))
  /\ UNCHANGED <<revision, clock>>

\* LibreOffice exits 0 with its PDF written: rename to pdfFile, then pdftoppm
PdfOk(r) ==
  /\ req[r].pc = "pdf"
  /\ Awaits(r,
            unlinkRangeExcel(revision, fs, req[r].ts)
              \cup {pdfFile(req[r].ts)},
            {generatedPdf(revision, req[r].ts), pdfFile(req[r].ts)},
            "poppler", "none")
  /\ UNCHANGED <<revision, clock>>

PdfFails(r) ==
  /\ req[r].pc = "pdf"
  /\ Throws(r, unlinkRangeExcel(revision, fs, req[r].ts))
  /\ UNCHANGED <<revision, clock>>

\* pdftoppm exits 0 with popplerOutput written
PopplerOk(r) ==
  /\ req[r].pc = "poppler"
  /\ IF revision = "crop"
     THEN Awaits(r, fs \cup {popplerOutput(revision, req[r].ts)},
                 {popplerOutput(revision, req[r].ts)}, "crop", "poppler")
     ELSE Returns(r, fs \cup {popplerOutput(revision, req[r].ts)},
                  {popplerOutput(revision, req[r].ts)}, "poppler")
  /\ UNCHANGED <<revision, clock>>

\* pdftoppm exits non-zero: the catch starts ImageMagick
PopplerFails(r) ==
  /\ req[r].pc = "poppler"
  /\ Awaits(r, fs, {}, "imagemagick", "none")
  /\ UNCHANGED <<revision, clock>>

\* convert exits 0 with pngFile written
ImageMagickOk(r) ==
  /\ req[r].pc = "imagemagick"
  /\ IF revision = "crop"
     THEN Awaits(r, fs \cup {pngFile(revision, req[r].ts)},
                 {pngFile(revision, req[r].ts)}, "crop", "imagemagick")
     ELSE Returns(r, fs \cup {pngFile(revision, req[r].ts)},
                  {pngFile(revision, req[r].ts)}, "imagemagick")
  /\ UNCHANGED <<revision, clock>>

\* the catch had it gone back to pdftoppm
ImageMagickFailsRetry(r) ==
  /\ req[r].pc = "imagemagick"
  /\ Awaits(r, fs, {}, "poppler", "none")
  /\ UNCHANGED <<revision, clock>>

ImageMagickFails(r) ==
  /\ req[r].pc = "imagemagick"
  /\ Throws(r, fs)
  /\ UNCHANGED <<revision, clock>>

\* crop revision: sharp writes croppedFile, the crop or the copy of the page
CropOk(r) ==
  /\ req[r].pc = "crop"
  /\ pngFile(revision, req[r].ts) \in fs
  /\ Returns(r, fs \cup {croppedFile(req[r].ts)}, {croppedFile(req[r].ts)},
             req[r].backend)
  /\ UNCHANGED <<revision, clock>>

CropFails(r) ==
  /\ req[r].pc = "crop"
  /\ Throws(r, fs)
  /\ UNCHANGED <<revision, clock>>

\* python revision: close with code 0 and a result with success true
PythonOk(r) ==
  /\ req[r].pc = "python"
  /\ fs' = fs
  /\ req' = [req EXCEPT ![r] = [@ EXCEPT !.pc = "done", !.timer = FALSE,
                                         !.backend = "python",
                                         !.status = 200, !.image = TRUE,
                                         !.method = METHOD]]
  /\ UNCHANGED <<revision, clock>>

PythonFails(r) ==
  /\ req[r].pc = "python"
  /\ Throws(r, fs)
  /\ UNCHANGED <<revision, clock>>

\* the timeout of the awaited subprocess fires: it is killed and the await
\* rejects; a pdftoppm rejection is caught and ImageMagick is started
Timeout(r) ==
  /\ req[r].pc \in {"python", "pdf", "poppler", "imagemagick"}
  /\ req[r].timer
  /\ IF req[r].pc = "poppler"
     THEN /\ fs' = fs
          /\ req' = [req EXCEPT ![r] = [@ EXCEPT !.pc = "imagemagick",
                                                 !.killed = TRUE]]
     ELSE /\ fs' = cleanup(unlinkRangeExcel(revision, fs, req[r].ts),
                           cleanupList(revision, req[r].ts))
          /\ req' = [req EXCEPT ![r] = [@ EXCEPT !.pc = "done",
                                                 !.timer = FALSE,
                                                 !.killed = TRUE,
                                                 !.status = 500,
                                                 !.image = FALSE,
                                                 !.method = "none"]]
  /\ UNCHANGED <<revision, clock>>

\* the close event of a killed subprocess: the promise is settled already
LateClose(r) ==
  /\ req[r].killed
  /\ ~req[r].closed
  /\ req' = [req EXCEPT ![r] = [@ EXCEPT !.closed = TRUE]]
  /\ UNCHANGED <<revision, clock, fs>>

RenderStep(r) ==
  \/ Start(r)
  \/ RangeExcelWritten(r)
  \/ RangeExcelFails(r)
  \/ PdfOk(r)
  \/ PdfFails(r)
  \/ PopplerOk(r)
  \/ PopplerFails(r)
  \/ ImageMagickOk(r)
  \/ ImageMagickFails(r)
  \/ CropOk(r)
  \/ CropFails(r)
  \/ PythonOk(r)
  \/ PythonFails(r)
  \/ Timeout(r)
  \/ LateClose(r)

NextRender ==
  \/ /\ Tick
     /\ UNCHANGED boundaryVars
     /\ UNCHANGED detectVars
  \/ /\ \E r \in Requests : RenderStep(r)
     /\ UNCHANGED boundaryVars
     /\ UNCHANGED detectVars

SpecRender == InitRender /\ [][NextRender]_vars

(***************************************************************************)
(* Properties of the render pipeline, under SpecRender.                    *)
(***************************************************************************)
inFlight(r) == req[r].pc \notin {"idle", "done"}

awaitsSubprocess(r) == req[r].pc \in {"python", "pdf", "poppler", "imagemagick"}

\* C4: a request whose image came from the secondary raster backend is
\* answered 200 with an image, and its method differs from the method of
\* every request whose image came from the primary backend.
C4_MethodTellsBackend ==
  \A r \in Requests :
    (req[r].pc = "done" /\ req[r].backend = "imagemagick" /\ req[r].status = 200)
    => /\ req[r].image
       /\ \A q \in Requests :
            (req[q].pc = "done" /\ req[q].status = 200
             /\ req[q].backend = "poppler")
            => req[q].method # req[r].method

\* C5: in the step in which renderExcelRange returns or throws, no file
\* created for the request is left in the temp directory.
C5_NoTempFileRemains ==
  [][\A r \in Requests :
       (req[r].pc # "done" /\ req'[r].pc = "done")
       => req'[r].created \cap fs' = {}]_vars

\* C6: two requests in flight at the same time have created disjoint sets of
\* temp file paths.
C6_DisjointTempFiles ==
  \A r \in Requests, q \in Requests :
    (r # q /\ inFlight(r) /\ inFlight(q))
    => req[r].created \cap req[q].created = {}

\* C7: a request that awaits a subprocess has a timeout armed for it, and a
\* request whose subprocess was killed by the timeout ends in an error
\* without an image.
C7_EveryCallTimesOut ==
  \A r \in Requests :
    /\ awaitsSubprocess(r) => req[r].timer
    /\ (req[r].killed /\ req[r].pc = "done")
         => (req[r].status = 500 /\ ~req[r].image)

\* the place of a request in renderExcelRange, in program order
pcRank(pc) ==
  CASE pc = "idle" -> 0
    [] pc \in {"rangeExcel", "python"} -> 1
    [] pc = "pdf" -> 2
    [] pc = "poppler" -> 3
    [] pc = "imagemagick" -> 4
    [] pc = "crop" -> 5
    [] pc = "done" -> 6

InitCancel ==
  /\ revision \in Revisions
  /\ clock = 0
  /\ fs = {}
  /\ req = [r \in Requests |-> idleRequest]
  /\ response = [r \in Requests |-> [connected |-> TRUE]]
  /\ bSheet = <<>> /\ bHeader = <<>> /\ bPadding = 0 /\ bRegion = <<>>
  /\ workbook = <<>> /\ tableMappings = <<>>
  /\ call = <<>> /\ result = <<>> /\ firstResult = {} /\ calls = 0

\* the caller of request r closes the connection before the answer
Disconnect(r) ==
  /\ req[r].pc \notin {"idle", "done"}
  /\ response[r].connected
  /\ response' = [response EXCEPT ![r] = [connected |-> FALSE]]
  /\ UNCHANGED <<workbook, tableMappings, call, result, firstResult, calls>>
  /\ UNCHANGED boundaryVars
  /\ UNCHANGED renderVars

NextCancel ==
  \/ NextRender
  \/ \E r \in Requests : Disconnect(r)

SpecCancel == InitCancel /\ [][NextCancel]_vars

\* C28: when the caller has disconnected while a conversion subprocess of its
\* request is running, the subprocess is terminated: it neither runs on to
\* its completion nor to its timeout.
C28_DisconnectEndsSubprocess ==
  [][\A r \in Requests :
       (~response[r].connected /\ awaitsSubprocess(r)) => req'[r] = req[r]]_vars

(***************************************************************************)
(* GET /health: the server awaits healthCheck of the renderer and answers  *)
(* 200 with its result.  healthCheck runs version commands; whether each   *)
(* one succeeds is an input (probes), kept in call.                        *)
(***************************************************************************)
ProbeCommands ==
  {"python3", "openpyxl", "soffice", "libreoffice", "pdftoppm", "convert",
   "script"}

\* python revision, getRecommendation: the missing components, in order
missingComponents(checks) ==
  SelectSeq(<<"python", "openpyxl", "libreoffice", "poppler", "script">>,
            LAMBDA c : ~checks[c])

\* python revision, lines 127-165
pythonHealth(probes) ==
  LET checks == [python |-> probes["python3"], openpyxl |-> probes["openpyxl"],
                 libreoffice |-> probes["soffice"], poppler |-> probes["pdftoppm"],
                 script |-> probes["script"]]
      allReady == \A c \in DOMAIN checks : checks[c]
  IN [available |-> allReady,
      python |-> checks.python,
      openpyxl |-> checks.openpyxl,
      libreoffice |-> checks.libreoffice,
      poppler |-> checks.poppler,
      script |-> checks.script,
      recommendation |-> IF allReady
                         THEN <<"All systems ready for Python extraction">>
                         ELSE <<"Install missing components">>
                              \o missingComponents(checks)]

\* range revision, lines 563-576
rangeHealth(probes) ==
  IF probes["libreoffice"]
  THEN [available |-> TRUE, version |-> "stdout.trim()"]
  ELSE [available |-> FALSE, error |-> "error.message"]

\* crop and full-page revisions, lines 936-975 and 1196-1235
toolsHealth(probes) ==
  [available |-> probes["soffice"] /\ (probes["pdftoppm"] \/ probes["convert"]),
   libreoffice |-> probes["soffice"],
   poppler |-> probes["pdftoppm"],
   imagemagick |-> probes["convert"],
   recommendation |-> IF probes["soffice"]
                      THEN IF probes["pdftoppm"]
                           THEN <<"All systems ready">>
                           ELSE <<"Install poppler-utils for better PDF conversion">>
                      ELSE <<"Install LibreOffice: apt-get install libreoffice-calc">>]

\* the command that probes LibreOffice
libreOfficeCommand(rev) == IF rev = "range" THEN "libreoffice" ELSE "soffice"

healthCheck(rev, probes) ==
  IF rev = "python" THEN pythonHealth(probes)
  ELSE IF rev = "range" THEN rangeHealth(probes)
  ELSE toolsHealth(probes)

InitHealth ==
  /\ revision \in Revisions
  /\ clock = 0 /\ fs = {} /\ req = <<>>
  /\ bSheet = <<>> /\ bHeader = <<>> /\ bPadding = 0 /\ bRegion = <<>>
  /\ workbook = <<>> /\ tableMappings = <<>>
  /\ call = <<>> /\ result = <<>> /\ firstResult = {} /\ calls = 0
  /\ response = <<>>

\* app.get('/health', ...), server.js 250-257
Health(probes) ==
  /\ calls = 0
  /\ call' = <<[endpoint |-> "/health", probes |-> probes]>>
  /\ response' = <<[status |-> 200, health |-> "healthy",
                    service |-> "excel-screenshot",
                    visualRenderer |-> healthCheck(revision, probes)]>>
  /\ calls' = 1
  /\ UNCHANGED <<workbook, tableMappings, result, firstResult>>
  /\ UNCHANGED boundaryVars
  /\ UNCHANGED renderVars

NextHealth == \E probes \in [ProbeCommands -> BOOLEAN] : Health(probes)

SpecHealth == InitHealth /\ [][NextHealth]_vars

\* C20: the health answer carries one flag per backend (LibreOffice, poppler,
\* ImageMagick), each the outcome of that backend's own probe, and available
\* is true iff LibreOffice and at least one raster backend are available;
\* the endpoint answers whatever is missing.
C20_FlagPerBackend ==
  response # <<>> =>
    /\ response[1].status = 200
    /\ {"available", "libreoffice", "poppler", "imagemagick"}
         \subseteq DOMAIN response[1].visualRenderer
    /\ response[1].visualRenderer.libreoffice
         = call[1].probes[libreOfficeCommand(revision)]
    /\ response[1].visualRenderer.poppler = call[1].probes["pdftoppm"]
    /\ response[1].visualRenderer.imagemagick = call[1].probes["convert"]
    /\ response[1].visualRenderer.available
         = (/\ response[1].visualRenderer.libreoffice
            /\ \/ response[1].visualRenderer.poppler
               \/ response[1].visualRenderer.imagemagick)
====
